---- MODULE Spec2Model ----
(***************************************************************************)
(* Provably-fair Plinko outcome engine: Xorshift32 generator, peg field,   *)
(* row walk, commit/start/reveal/verify round protocol.                     *)
(*                                                                         *)
(* Number representation.  TLC integers are 32-bit signed, so an unsigned  *)
(* 32-bit word is kept as a pair <<hi, lo>> of 16-bit halves.  JavaScript's *)
(* <<, >>> and ^ act on the low 32 bits of their operand and the generator *)
(* stores x >>> 0, so the pair is exactly the stored state.  A value       *)
(* returned by nextFloat is state / 2^32, exact in a double; it is kept as *)
(* its numerator, the word itself.  A stored bias is a multiple of 10^-6   *)
(* and is kept as its count of millionths.                                 *)
(***************************************************************************)
EXTENDS Integers, Sequences, FiniteSets, TLC

VARIABLES
    gen,        \* a stand-alone Xorshift32 instance (the generator unit tests)
    engines,    \* engine objects returned by createGameEngine
    walk,       \* one createGameEngine + run execution, statement by statement
    rounds,     \* the Round table
    reqs,       \* request handlers suspended at an await
    resps,      \* responses sent
    ui          \* a page of the client: its state, closures and requests

vars == <<gen, engines, walk, rounds, reqs, resps, ui>>

\* ------------------------------------------------------------------------
\* 32-bit words
\* ------------------------------------------------------------------------
W16 == 2^16

Word(hi, lo) == <<hi, lo>>
Hi(w) == w[1]
Lo(w) == w[2]
IsWord(w) == Hi(w) \in 0..(W16 - 1) /\ Lo(w) \in 0..(W16 - 1)
ZeroWord == Word(0, 0)
OneWord == Word(0, 1)

\* a ^ b for two 4-bit values a and b is XorTable[a + 1][b + 1]
XorTable ==
    <<<<0, 1, 2, 3, 4, 5, 6, 7, 8, 9, 10, 11, 12, 13, 14, 15>>,
      <<1, 0, 3, 2, 5, 4, 7, 6, 9, 8, 11, 10, 13, 12, 15, 14>>,
      <<2, 3, 0, 1, 6, 7, 4, 5, 10, 11, 8, 9, 14, 15, 12, 13>>,
      <<3, 2, 1, 0, 7, 6, 5, 4, 11, 10, 9, 8, 15, 14, 13, 12>>,
      <<4, 5, 6, 7, 0, 1, 2, 3, 12, 13, 14, 15, 8, 9, 10, 11>>,
      <<5, 4, 7, 6, 1, 0, 3, 2, 13, 12, 15, 14, 9, 8, 11, 10>>,
      <<6, 7, 4, 5, 2, 3, 0, 1, 14, 15, 12, 13, 10, 11, 8, 9>>,
      <<7, 6, 5, 4, 3, 2, 1, 0, 15, 14, 13, 12, 11, 10, 9, 8>>,
      <<8, 9, 10, 11, 12, 13, 14, 15, 0, 1, 2, 3, 4, 5, 6, 7>>,
      <<9, 8, 11, 10, 13, 12, 15, 14, 1, 0, 3, 2, 5, 4, 7, 6>>,
      <<10, 11, 8, 9, 14, 15, 12, 13, 2, 3, 0, 1, 6, 7, 4, 5>>,
      <<11, 10, 9, 8, 15, 14, 13, 12, 3, 2, 1, 0, 7, 6, 5, 4>>,
      <<12, 13, 14, 15, 8, 9, 10, 11, 4, 5, 6, 7, 0, 1, 2, 3>>,
      <<13, 12, 15, 14, 9, 8, 11, 10, 5, 4, 7, 6, 1, 0, 3, 2>>,
      <<14, 15, 12, 13, 10, 11, 8, 9, 6, 7, 4, 5, 2, 3, 0, 1>>,
      <<15, 14, 13, 12, 11, 10, 9, 8, 7, 6, 5, 4, 3, 2, 1, 0>>>>

\* bitwise exclusive or of two 16-bit values, four bits at a time
Xor16(a, b) ==
    IF b = 0 THEN a
    ELSE XorTable[(a % 16) + 1][(b % 16) + 1]
         + 16 * XorTable[((a \div 16) % 16) + 1][((b \div 16) % 16) + 1]
         + 256 * XorTable[((a \div 256) % 16) + 1][((b \div 256) % 16) + 1]
         + 4096 * XorTable[(a \div 4096) + 1][(b \div 4096) + 1]

\* JavaScript x ^ y on 32-bit patterns
XorWord(x, y) == Word(Xor16(Hi(x), Hi(y)), Xor16(Lo(x), Lo(y)))

\* JavaScript x << n for 0 < n < 16: the low 32 bits of x * 2^n
ShlWord(x, n) ==
    Word(((Hi(x) % 2^(16 - n)) * 2^n) + (Lo(x) \div 2^(16 - n)),
         (Lo(x) % 2^(16 - n)) * 2^n)

\* JavaScript x >>> n for 16 <= n < 32: logical shift, zero filled
ShrWord(x, n) == Word(0, Hi(x) \div 2^(n - 16))

\* ------------------------------------------------------------------------
\* class Xorshift32
\* ------------------------------------------------------------------------
\* A JavaScript integer n, of either sign and possibly beyond 32 bits:
\* |n| = ext * 2^32 + w.
Num(neg, ext, w) == [neg |-> neg, ext |-> ext, w |-> w]
NumOfWord(w) == Num(FALSE, 0, w)

\* n >>> 0: n modulo 2^32
ToUint32(n) ==
    IF ~n.neg \/ n.w = ZeroWord THEN n.w
    ELSE IF Lo(n.w) = 0 THEN Word(W16 - Hi(n.w), 0)
    ELSE Word(W16 - 1 - Hi(n.w), W16 - Lo(n.w))

\* the constructor without its fallback for a zero seed
Xorshift32NewNoFallback(seed) == ToUint32(seed)

\* constructor(seed): this.state = seed >>> 0, and 1 when that is 0
Xorshift32New(seed) ==
    LET state == ToUint32(seed)
    IN  IF state = ZeroWord THEN OneWord ELSE state

\* JavaScript x >> n for 16 <= n < 32: the sign bit fills from the left
SarWord(x, n) ==
    IF Hi(x) < 2^15 THEN ShrWord(x, n)
    ELSE Word(W16 - 1, (W16 - 2^(32 - n)) + (Hi(x) \div 2^(n - 16)))

\* the second statement written with >> as in the class comment
Step17Signed(x) == XorWord(x, SarWord(x, 17))

\* the three statements of nextFloat, in their order
Step13(x) == XorWord(x, ShlWord(x, 13))
Step17(x) == XorWord(x, ShrWord(x, 17))
\* the third statement shifting by 7
Step5Seven(x) == XorWord(x, ShlWord(x, 7))

Step5(x) == XorWord(x, ShlWord(x, 5))

\* nextFloat(): the new state; the value returned is NextState(x) / 2^32
NextState(x) == Step5(Step17(Step13(x)))

\* A generator object: its state, and (as a history count that the class
\* itself does not keep) how many times nextFloat has been called on it.
NewGenerator(seed) == [state |-> Xorshift32New(seed), draws |-> 0]

\* nextFloat returning x / 4294967296 for the x that the last ^= left, a
\* signed 32-bit integer: the numerator is x - 2^32 when bit 31 of x is set
DrawnSigned(prng, x) ==
    [prng |-> [state |-> x, draws |-> prng.draws + 1],
     value |-> IF Hi(x) >= 2^15 THEN Word(Hi(x) - W16, Lo(x)) ELSE x]

\* nextFloat(): the generator afterwards, and the value returned, which is
\* (this.state >>> 0) / 4294967296, kept as its numerator
Drawn(prng, x) ==
    [prng |-> [state |-> x, draws |-> prng.draws + 1], value |-> x]

NextFloat(prng) == Drawn(prng, NextState(prng.state))

\* ------------------------------------------------------------------------
\* Strings are sequences of one-character strings.
\* ------------------------------------------------------------------------
Alphabet ==
    <<"0", "1", "2", "3", "4", "5", "6", "7", "8", "9",
      "a", "b", "c", "d", "e", "f", "A", "B", "C", "D", "E", "F",
      "g", "h", "i", "l", "n", "o", "s", "t", "z", "L", "R",
      ":", "-", ".", ",", "[", "]", "{", "}", "\"">>

Chars == {Alphabet[i] : i \in 1..Len(Alphabet)}
CharCode == [ch \in Chars |-> CHOOSE i \in 1..Len(Alphabet) : Alphabet[i] = ch]

\* value of a hexadecimal digit, either case; -1 for any other character
HexVal(ch) ==
    LET k == CharCode[ch]
    IN  IF k <= 16 THEN k - 1 ELSE IF k <= 22 THEN k - 7 ELSE -1

HexDigit(v) == Alphabet[v + 1]

\* four lower-case hexadecimal digits of a 16-bit value
Hex16(v) ==
    <<HexDigit(v \div 4096), HexDigit((v \div 256) % 16),
      HexDigit((v \div 16) % 16), HexDigit(v % 16)>>

\* ------------------------------------------------------------------------
\* sha256(data): crypto.createHash('sha256').update(data).digest('hex')
\*
\* The digest algorithm is Node's, not this repository's.  It is modelled
\* by a fixed mixing function with the interface the code relies on: a
\* deterministic map from a string to 64 lower-case hexadecimal digits.
\* update() absorbs the characters in order, so a string handed over in
\* pieces gives the digest of the concatenation.
\* ------------------------------------------------------------------------
DigestInit == <<24593, 40503>>

Absorb(h, ch) ==
    LET a == (h[1] * 31 + CharCode[ch] + h[2]) % 65521
    IN  <<a, (h[2] * 17 + a * 3 + 1) % W16>>

\* absorb characters i..j of str, in order.  The range is halved, and the
\* first half's value is inspected before the second half starts, only so
\* that TLC's evaluation does not nest once per character.
RECURSIVE AbsorbStr(_, _, _, _)
AbsorbStr(h, str, i, j) ==
    IF i > j THEN h
    ELSE IF i = j THEN Absorb(h, str[i])
    ELSE LET m == (i + j) \div 2
             h1 == AbsorbStr(h, str, i, m)
         IN  IF h1[1] >= 0 THEN AbsorbStr(h1, str, m + 1, j) ELSE h1

\* absorb pieces i..j, in order
RECURSIVE AbsorbPieces(_, _, _, _)
AbsorbPieces(h, pieces, i, j) ==
    IF i > j THEN h
    ELSE IF i = j THEN AbsorbStr(h, pieces[i], 1, Len(pieces[i]))
    ELSE LET m == (i + j) \div 2
             h1 == AbsorbPieces(h, pieces, i, m)
         IN  IF h1[1] >= 0 THEN AbsorbPieces(h1, pieces, m + 1, j) ELSE h1

RECURSIVE DigestHex(_, _)
DigestHex(h, n) ==
    IF n = 0 THEN <<>>
    ELSE LET a == (h[1] * 75 + h[2] + 74) % W16
             b == (h[2] * 29 + a + 7) % 65521
         IN  Hex16(a) \o DigestHex(<<a, b>>, n - 1)

sha256(data) == DigestHex(AbsorbStr(DigestInit, data, 1, Len(data)), 16)
sha256Pieces(pieces) ==
    DigestHex(AbsorbPieces(DigestInit, pieces, 1, Len(pieces)), 16)

Colon == <<":">>

\* the string that generateCommit hashes with the nonce left out
CommitPreimageSeedOnly(serverSeed, nonce) == serverSeed \o Colon

\* `${serverSeed}:${nonce}`, the string that generateCommit hashes
\* the template literal without its separator
CommitPreimageNoSeparator(serverSeed, nonce) == serverSeed \o nonce

CommitPreimage(serverSeed, nonce) == serverSeed \o Colon \o nonce

generateCommit(serverSeed, nonce) == sha256(CommitPreimage(serverSeed, nonce))

generateCombinedSeed(serverSeed, clientSeed, nonce) ==
    sha256(serverSeed \o Colon \o clientSeed \o Colon \o nonce)

\* ------------------------------------------------------------------------
\* Buffer.from(str, 'hex') and readUInt32BE(0)
\* ------------------------------------------------------------------------
\* Node decodes two digits per byte and stops, without raising, at the
\* first pair that is not two hexadecimal digits; a trailing single
\* character is dropped.
RECURSIVE HexDecodeFrom(_, _)
HexDecodeFrom(str, i) ==
    IF i + 1 > Len(str) THEN <<>>
    ELSE LET a == HexVal(str[i])
             b == HexVal(str[i + 1])
         IN  IF a < 0 \/ b < 0 THEN <<>>
             ELSE <<a * 16 + b>> \o HexDecodeFrom(str, i + 2)

BufferFromHex(str) == HexDecodeFrom(str, 1)

\* the four bytes read with the first byte least significant
ReadUInt32LE(buffer) ==
    Word(buffer[4] * 256 + buffer[3], buffer[2] * 256 + buffer[1])

ReadUInt32BE(buffer) ==
    Word(buffer[1] * 256 + buffer[2], buffer[3] * 256 + buffer[4])

\* line 313: the decoded buffer is too short, and line 314 replaces it.
\* Buffer.from(string, 'hex') raises nothing, so line 318 is never reached.
Rehashed(combinedSeedHex) == Len(BufferFromHex(combinedSeedHex)) < 4

\* the buffer as decoded, lines 313-315 left out
SeedBufferNoRehash(combinedSeedHex) == BufferFromHex(combinedSeedHex)

\* lines 309-320 of createGameEngine: the bytes the seed is read from
SeedBuffer(combinedSeedHex) ==
    LET buffer == BufferFromHex(combinedSeedHex)
    IN  IF Len(buffer) < 4 THEN BufferFromHex(sha256(combinedSeedHex))
        ELSE buffer

SeedInt(combinedSeedHex) == ReadUInt32BE(SeedBuffer(combinedSeedHex))

\* ------------------------------------------------------------------------
\* Constants of the engine
\* ------------------------------------------------------------------------
ROWS == 12
DROP_COLUMNS == 13
Million == 10^6

\* ------------------------------------------------------------------------
\* Peg bias: 0.5 + (rnd - 0.5) * 0.2, then Math.round(x * 1000000) / 1000000
\* ------------------------------------------------------------------------
\* 0.5 + rnd - 0.5 * 0.2, the parentheses lost: 400000 + 15625 * state / 2^26
LeftBiasUnscaled(rnd) ==
    LET a == 15625 * Hi(rnd)
        b == 15625 * Lo(rnd)
        t == a + (b \div W16)
    IN  [whole |-> 400000 + (t \div 2^10),
         frac  |-> (t % 2^10) * W16 + (b % W16)]

\* The unrounded bias times 10^6 is 400000 + 3125 * state / 2^26.  LeftBias
\* gives it exactly, as whole millionths and a remainder in units of 2^-26.
LeftBias(rnd) ==
    LET a == 3125 * Hi(rnd)
        b == 3125 * Lo(rnd)
        t == a + (b \div W16)
    IN  [whole |-> 400000 + (t \div 2^10),
         frac  |-> (t % 2^10) * W16 + (b % W16)]

\* The two states whose exact bias is a tie (frac = 2^25) and whose double
\* product leftBias * 1000000 comes out just below the tie.
TieRoundedDown == {Word(34304, 0), Word(39424, 0)}

\* Math.floor in the place of Math.round
RoundedBiasFloor(rnd) == LeftBias(rnd).whole

\* Math.round: to the nearest integer, a tie upward.  Every non-tie is at
\* least 2^-26 from the tie, far more than the error of the double
\* arithmetic, so only ties need the double result looked up.
RoundedBias(rnd) ==
    LET lb == LeftBias(rnd)
    IN  IF lb.frac > 2^25 \/ (lb.frac = 2^25 /\ rnd \notin TieRoundedDown)
        THEN lb.whole + 1
        ELSE lb.whole

\* ------------------------------------------------------------------------
\* Row decision
\* ------------------------------------------------------------------------
\* run(dropColumn: number) takes any number.  The numbers of the model are
\* integers, and the one value NaN, which arithmetic hands on and for which
\* every comparison is false; NaN is kept as an integer that no calculation
\* of the model gives.
NaN == 0 - 2^30

\* adj computed from the column brought into 0..12 first
AdjFromClampedColumn(dropColumn) ==
    IF dropColumn = NaN THEN NaN
    ELSE IF dropColumn < 0 THEN (0 - (ROWS \div 2)) * 10000
    ELSE IF dropColumn > ROWS THEN (ROWS - (ROWS \div 2)) * 10000
    ELSE (dropColumn - (ROWS \div 2)) * 10000

\* adj with the difference taken the other way round
AdjNegated(dropColumn) ==
    IF dropColumn = NaN THEN NaN ELSE ((ROWS \div 2) - dropColumn) * 10000

\* adj with the factor 0.1
AdjByTenth(dropColumn) ==
    IF dropColumn = NaN THEN NaN ELSE (dropColumn - (ROWS \div 2)) * 100000

\* adj = (dropColumn - Math.floor(ROWS / 2)) * 0.01, in millionths
Adj(dropColumn) ==
    IF dropColumn = NaN THEN NaN ELSE (dropColumn - (ROWS \div 2)) * 10000

\* biasPrime = peg.leftBias + adj, clamped to [0, 1], in millionths: the two
\* if statements of lines 379-380, both false for NaN
BiasPrime(leftBias, dropColumn) ==
    LET adj == Adj(dropColumn)
        b == leftBias + adj
    IN  IF adj = NaN THEN NaN
        ELSE IF b < 0 THEN 0 ELSE IF b > Million THEN Million ELSE b

\* The cases where rnd equals leftBias + adj exactly but the double sum
\* peg.leftBias + adj is one unit in the last place above it, so that
\* rnd < biasPrime is true in the code: <<state, leftBias, dropColumn>>.
SumRoundedUp ==
    {<<Word(29696, 0), 513125, 0>>, <<Word(30720, 0), 528750, 0>>,
     <<Word(31744, 0), 544375, 0>>, <<Word(29696, 0), 503125, 1>>,
     <<Word(30720, 0), 518750, 1>>, <<Word(31744, 0), 534375, 1>>,
     <<Word(30720, 0), 508750, 2>>, <<Word(31744, 0), 524375, 2>>}

\* the comparison written rnd <= biasPrime
RndLessOrEqual(rnd, leftBias, dropColumn) ==
    /\ BiasPrime(leftBias, dropColumn) # NaN
    /\ \/ 15625 * Hi(rnd) + ((15625 * Lo(rnd)) \div W16)
             < BiasPrime(leftBias, dropColumn) * 2^10
       \/ /\ 15625 * Hi(rnd) + ((15625 * Lo(rnd)) \div W16)
                = BiasPrime(leftBias, dropColumn) * 2^10
          /\ (15625 * Lo(rnd)) % W16 = 0
       \/ <<rnd, leftBias, dropColumn>> \in SumRoundedUp

\* rnd < biasPrime, with rnd = state / 2^32 and biasPrime = n / 10^6:
\* state * 15625 < n * 2^26
RndLess(rnd, leftBias, dropColumn) ==
    /\ BiasPrime(leftBias, dropColumn) # NaN
    /\ \/ 15625 * Hi(rnd) + ((15625 * Lo(rnd)) \div W16)
             < BiasPrime(leftBias, dropColumn) * 2^10
       \/ <<rnd, leftBias, dropColumn>> \in SumRoundedUp

\* ------------------------------------------------------------------------
\* createGameEngine, step 2: the peg map loops
\* ------------------------------------------------------------------------
\* The loop state: the generator, the rows pushed so far, the row being
\* filled, and the loop counters r and c.
PegLoopInit(prng) ==
    [prng |-> prng, pegMap |-> <<>>, rowPegs |-> <<>>, r |-> 0, c |-> 0]

PegLoopDone(st) == st.r >= ROWS

\* rowPegs.unshift in the place of rowPegs.push
PegPushFront(st, draw) ==
    [st EXCEPT !.prng = draw.prng,
               !.rowPegs = <<[leftBias |-> RoundedBias(draw.value)]>>
                           \o st.rowPegs,
               !.c = st.c + 1]

\* one iteration of the inner loop body, draw being what nextFloat gave
PegPush(st, draw) ==
    [st EXCEPT !.prng = draw.prng,
               !.rowPegs = Append(st.rowPegs,
                                  [leftBias |-> RoundedBias(draw.value)]),
               !.c = st.c + 1]

PegStep(st) == PegPush(st, NextFloat(st.prng))

\* rowPegs declared before the outer loop: every row pushed is the one
\* array, holding all pegs made so far
PegRowEndKeepsRow(st) ==
    [st EXCEPT !.pegMap = Append(st.pegMap, st.rowPegs),
               !.r = st.r + 1, !.c = 0]

\* the inner loop ended (c > r): pegMap.push(rowPegs), r++, and the next
\* row starts with an empty rowPegs and c = 0
PegRowEnd(st) ==
    [st EXCEPT !.pegMap = Append(st.pegMap, st.rowPegs), !.rowPegs = <<>>,
               !.r = st.r + 1, !.c = 0]

\* for (let c = 0; c <= r; c++) { ... }, from the loop state st on
RECURSIVE PegInnerLoop(_)
PegInnerLoop(st) == IF st.c <= st.r THEN PegInnerLoop(PegStep(st)) ELSE st

\* for (let r = 0; r < ROWS; r++) { ... }, from the loop state st on
RECURSIVE PegLoop(_)
PegLoop(st) ==
    IF PegLoopDone(st) THEN st ELSE PegLoop(PegRowEnd(PegInnerLoop(st)))

\* ------------------------------------------------------------------------
\* JSON.stringify
\* ------------------------------------------------------------------------
Digit(d) == Alphabet[d + 1]

\* the digits of n (0 <= n < 10^k) in k places, without trailing zeros
RECURSIVE Fraction(_, _)
Fraction(n, k) ==
    IF n = 0 THEN <<>>
    ELSE <<Digit(n \div 10^(k - 1))>> \o Fraction(n % 10^(k - 1), k - 1)

\* Number to string, for a multiple m of 10^-6 in [0, 1]
NumberToString(m) ==
    IF m = 0 THEN <<"0">>
    ELSE IF m = Million THEN <<"1">>
    ELSE <<"0", ".">> \o Fraction(m, 6)

PegJson(peg) ==
    <<"{", "\"", "l", "e", "f", "t", "B", "i", "a", "s", "\"", ":">>
    \o NumberToString(peg.leftBias) \o <<"}">>

\* JSON.stringify(pegMap) as the pieces of the string, in order: one piece
\* per peg, holding the brackets and commas that precede and follow it
PegPiece(pegMap, r, c) ==
    (IF r = 0 THEN <<"[">> ELSE <<>>)
    \o (IF c = 0 THEN <<"[">> ELSE <<>>)
    \o PegJson(pegMap[r + 1][c + 1])
    \o (IF c = r THEN <<"]">> ELSE <<",">>)
    \o (IF c = r THEN (IF r = Len(pegMap) - 1 THEN <<"]">> ELSE <<",">>)
        ELSE <<>>)

RECURSIVE RowPieces(_, _, _)
RowPieces(pegMap, r, c) ==
    IF c > r THEN <<>>
    ELSE <<PegPiece(pegMap, r, c)>> \o RowPieces(pegMap, r, c + 1)

RECURSIVE MapPieces(_, _)
MapPieces(pegMap, r) ==
    IF r >= Len(pegMap) THEN <<>>
    ELSE RowPieces(pegMap, r, 0) \o MapPieces(pegMap, r + 1)

StringifyPegMap(pegMap) ==
    IF pegMap = <<>> THEN << <<"[", "]">> >> ELSE MapPieces(pegMap, 0)

PathEntryJson(e) ==
    IF e = "Left" THEN <<"\"", "L", "e", "f", "t", "\"">>
    ELSE <<"\"", "R", "i", "g", "h", "t", "\"">>

RECURSIVE PathItems(_, _)
PathItems(path, i) ==
    IF i > Len(path) THEN <<>>
    ELSE (IF i > 1 THEN <<",">> ELSE <<>>)
         \o PathEntryJson(path[i]) \o PathItems(path, i + 1)

StringifyPath(path) == <<"[">> \o PathItems(path, 1) \o <<"]">>

\* ------------------------------------------------------------------------
\* createGameEngine
\* ------------------------------------------------------------------------
\* The engine object: pegMap and pegMapHash, and the generator that the
\* closure of run captures.
EngineObject(st) ==
    [pegMap |-> st.pegMap,
     pegMapHash |-> sha256Pieces(StringifyPegMap(st.pegMap)),
     prng |-> st.prng]

\* createGameEngine with the generator at module level: made by the first
\* engine, and continued by every engine built after it
createGameEngineShared(combinedSeedHex) ==
    IF engines[1].made
    THEN EngineObject(PegLoop(PegLoopInit(engines[1].engine.prng)))
    ELSE EngineObject(PegLoop(PegLoopInit(
             NewGenerator(NumOfWord(SeedInt(combinedSeedHex))))))

createGameEngine(combinedSeedHex) ==
    EngineObject(PegLoop(PegLoopInit(
        NewGenerator(NumOfWord(SeedInt(combinedSeedHex))))))

\* ------------------------------------------------------------------------
\* run(dropColumn)
\* ------------------------------------------------------------------------
Min(a, b) == IF a < b THEN a ELSE b

\* run with pos declared outside it, beside pegMap: it keeps its value
\* from one call to the next
RunInitKeepsPos(prng) ==
    [prng |-> prng, path |-> <<>>, r |-> 0,
     pos |-> IF walk.first.called THEN walk.run.pos ELSE 0]

\* run with path declared outside it
RunInitKeepsPath(prng) ==
    [prng |-> prng, pos |-> 0, r |-> 0,
     path |-> IF walk.first.called THEN walk.run.path ELSE <<>>]

\* run seeding a generator of its own instead of continuing the engine's
RunInitReseeded(prng) ==
    [prng |-> NewGenerator(NumOfWord(SeedInt(walk.seed))),
     path |-> <<>>, pos |-> 0, r |-> 0]

RunInit(prng) == [prng |-> prng, path |-> <<>>, pos |-> 0, r |-> 0]

RunDone(st) == st.r >= ROWS

\* the peg looked up at index r - Math.min(pos, r)
PegAtMirrored(st, pegMap) == pegMap[st.r + 1][st.r - Min(st.pos, st.r) + 1]

\* the peg that governs row r: pegMap[r][Math.min(pos, r)]
PegAt(st, pegMap) == pegMap[st.r + 1][Min(st.pos, st.r) + 1]

\* the decision with the two branches' bookkeeping exchanged
DecideSwapped(st, peg, dropColumn, draw) ==
    IF RndLess(draw.value, peg.leftBias, dropColumn)
    THEN [st EXCEPT !.prng = draw.prng, !.path = Append(st.path, "Left"),
                    !.pos = st.pos + 1, !.r = st.r + 1]
    ELSE [st EXCEPT !.prng = draw.prng, !.path = Append(st.path, "Right"),
                    !.r = st.r + 1]

\* the decision with pos += 2 in the Right branch
DecideRightAddsTwo(st, peg, dropColumn, draw) ==
    IF RndLess(draw.value, peg.leftBias, dropColumn)
    THEN [st EXCEPT !.prng = draw.prng, !.path = Append(st.path, "Left"),
                    !.r = st.r + 1]
    ELSE [st EXCEPT !.prng = draw.prng, !.path = Append(st.path, "Right"),
                    !.pos = st.pos + 2, !.r = st.r + 1]

\* the decision of one row, draw being what nextFloat gave
Decide(st, peg, dropColumn, draw) ==
    IF RndLess(draw.value, peg.leftBias, dropColumn)
    THEN [st EXCEPT !.prng = draw.prng, !.path = Append(st.path, "Left"),
                    !.r = st.r + 1]
    ELSE [st EXCEPT !.prng = draw.prng, !.path = Append(st.path, "Right"),
                    !.pos = st.pos + 1, !.r = st.r + 1]

\* the row loop taking no draw in a row whose adjusted bias the clamp has
\* brought to 1
RowStepForcedNoDraw(st, pegMap, dropColumn) ==
    IF BiasPrime(PegAt(st, pegMap).leftBias, dropColumn) = Million
    THEN [st EXCEPT !.path = Append(st.path, "Left"), !.r = st.r + 1]
    ELSE Decide(st, PegAt(st, pegMap), dropColumn, NextFloat(st.prng))

\* one iteration of the row loop
RowStep(st, pegMap, dropColumn) ==
    Decide(st, PegAt(st, pegMap), dropColumn, NextFloat(st.prng))

RECURSIVE RowLoop(_, _, _)
RowLoop(st, pegMap, dropColumn) ==
    IF RunDone(st) THEN st ELSE RowLoop(RowStep(st, pegMap, dropColumn), pegMap, dropColumn)

\* the PathResult returned (pegMap left out: it is the engine's own)
PathResult(engine, st) ==
    [pegMapHash |-> engine.pegMapHash, path |-> st.path, binIndex |-> st.pos]

\* run writing into the peg field: the first peg's bias is reset by a call
AfterRunResetsPeg(engine, st) ==
    [engine EXCEPT !.prng = st.prng, !.pegMap[1][1].leftBias = Million \div 2]

\* the engine after a call: its generator is where the row loop left it
AfterRun(engine, st) == [engine EXCEPT !.prng = st.prng]

\* what a call leaves: the result, and the engine
Returned(engine, st) ==
    [result |-> PathResult(engine, st), engine |-> AfterRun(engine, st)]

\* run on an engine
RunEngine(engine, dropColumn) ==
    Returned(engine, RowLoop(RunInit(engine.prng), engine.pegMap, dropColumn))

\* ------------------------------------------------------------------------
\* Inputs
\* ------------------------------------------------------------------------
\* the combined seed of the repository's test vector
VectorSeed ==
    <<"e", "1", "d", "d", "d", "f", "7", "7", "d", "e", "2", "7", "d", "3",
      "9", "5", "e", "a", "2", "b", "e", "2", "e", "d", "4", "9", "a", "a",
      "2", "a", "5", "9", "b", "d", "6", "b", "f", "1", "2", "e", "e", "8",
      "d", "3", "5", "0", "c", "1", "6", "c", "0", "0", "8", "a", "b", "d",
      "4", "0", "6", "c", "0", "7", "e", "0">>

\* Combined-seed strings handed to createGameEngine: the test vector, a
\* seed whose first four bytes are zero, nine upper-case digits, four good
\* bytes followed by characters that are not hexadecimal, seven digits
\* (three bytes), a string that is not hexadecimal at all, and the empty
\* string.
TestSeeds ==
    {VectorSeed,
     <<"0", "0", "0", "0", "0", "0", "0", "0", "f", "f">>,
     <<"E", "1", "D", "D", "D", "F", "7", "7", "0">>,
     <<"e", "1", "d", "d", "d", "f", "7", "7", "z", "z">>,
     <<"e", "1", "d", "d", "d", "f", "7">>,
     <<"t", "e", "s", "t", "-", "s", "e", "e", "d">>,
     <<>>}

\* the seeds of the two-engine specification: a digest, and the malformed
\* seed of the repository's determinism test
EngineSeeds == {VectorSeed, <<"t", "e", "s", "t", "-", "s", "e", "e", "d">>}

\* the dropColumn values the request validation lets through
DropColumns == 0..(DROP_COLUMNS - 1)

\* the arguments run is called with: the columns, and values outside them,
\* which run itself receives when its caller has not validated (GET /verify
\* passes Number(dropColumn) as it comes)
RunArguments == DropColumns \cup {-100, -5, DROP_COLUMNS, 100, NaN}

\* Seeds given to new Xorshift32(seed) directly: zero, values that are zero
\* modulo 2^32, negative numbers, the extremes, single bits, the seed of the
\* unit tests and the first four bytes of the test vector.
GeneratorSeeds ==
    {Num(FALSE, 0, Word(0, 0)), Num(FALSE, 1, Word(0, 0)),
     Num(TRUE, 2, Word(0, 0)), Num(TRUE, 0, Word(0, 1)),
     Num(TRUE, 0, Word(1, 0)), Num(FALSE, 0, Word(0, 1)),
     Num(FALSE, 0, Word(32768, 0)), Num(FALSE, 0, Word(65535, 65535)),
     Num(FALSE, 0, Word(0, 12345)), Num(FALSE, 0, Word(57821, 57207)),
     Num(FALSE, 3, Word(43690, 21845)), Num(FALSE, 0, Word(1, 0))}

\* ------------------------------------------------------------------------
\* Bounds of the model
\* ------------------------------------------------------------------------
MaxDraws == 10      \* nextFloat calls on the stand-alone generator
MaxRuns == 3        \* run calls in one behaviour

\* ------------------------------------------------------------------------
\* State
\* ------------------------------------------------------------------------
NoGenerator == [made |-> FALSE]
NoEngine == [made |-> FALSE]
NoResult == [called |-> FALSE]
NoWalk == [pc |-> "idle"]
NoRun == [r |-> 0]
NoRow == [r |-> -1]
NoUi == [pc |-> "closed"]

EngineIds == {1, 2}

\* What is the same in every specification's initial state.
InitGen == gen = NoGenerator
InitEngines == engines = [e \in EngineIds |-> NoEngine]
InitWalk == walk = NoWalk
InitRounds == rounds = <<>> /\ reqs = {} /\ resps = {}
InitUi == ui = NoUi

\* ------------------------------------------------------------------------
\* Specification SpecPrng: one Xorshift32 object
\* ------------------------------------------------------------------------
\* new Xorshift32(seed)
Construct(seed) ==
    /\ ~gen.made
    /\ gen' = [made |-> TRUE, seed |-> seed, prng |-> NewGenerator(seed),
               before |-> ZeroWord, value |-> ZeroWord]
    /\ UNCHANGED <<ui, engines, walk, rounds, reqs, resps>>

\* prng.nextFloat(); before and value record the state the call started
\* from and the value it returned
CallNextFloat ==
    /\ gen.made
    /\ gen.prng.draws < MaxDraws
    /\ LET draw == NextFloat(gen.prng)
       IN  gen' = [gen EXCEPT !.prng = draw.prng, !.before = gen.prng.state,
                              !.value = draw.value]
    /\ UNCHANGED <<ui, engines, walk, rounds, reqs, resps>>

InitPrng == InitGen /\ InitEngines /\ InitWalk /\ InitRounds /\ InitUi

NextPrng ==
    \/ \E seed \in GeneratorSeeds : Construct(seed)
    \/ CallNextFloat

SpecPrng == InitPrng /\ [][NextPrng]_vars

\* ------------------------------------------------------------------------
\* Specification Spec: engine objects and calls of run
\* ------------------------------------------------------------------------
\* const engine = createGameEngine(seed): object e comes into being.  Beside
\* the engine's own fields the model keeps the seed it was built from, the
\* number of run calls so far and the last call's argument and result.
CreateEngine(e, seed) ==
    /\ ~engines[e].made
    /\ \A d \in EngineIds : d < e => engines[d].made
    /\ engines' = [engines EXCEPT ![e] =
                     [made |-> TRUE, seed |-> seed,
                      engine |-> createGameEngine(seed),
                      runs |-> 0, dropColumn |-> 0, last |-> NoResult]]
    /\ UNCHANGED <<ui, gen, walk, rounds, reqs, resps>>

\* run calls made so far, on all engine objects together
RunsSoFar ==
    LET n(e) == IF engines[e].made THEN engines[e].runs ELSE 0
    IN  n(1) + n(2)

\* engine.run(dropColumn) on object e
Run(e, dropColumn) ==
    /\ engines[e].made
    /\ RunsSoFar < MaxRuns
    /\ \E out \in {RunEngine(engines[e].engine, dropColumn)} :
           engines' = [engines EXCEPT ![e] =
                         [@ EXCEPT !.engine = out.engine,
                                   !.runs = @ + 1,
                                   !.dropColumn = dropColumn,
                                   !.last = [called |-> TRUE,
                                             result |-> out.result]]]
    /\ UNCHANGED <<ui, gen, walk, rounds, reqs, resps>>

Init == InitGen /\ InitEngines /\ InitWalk /\ InitRounds /\ InitUi

Next ==
    \/ \E e \in EngineIds, seed \in EngineSeeds : CreateEngine(e, seed)
    \/ \E e \in EngineIds, dropColumn \in DropColumns : Run(e, dropColumn)

Spec == Init /\ [][Next]_vars

\* ------------------------------------------------------------------------
\* Specification SpecWalk: one engine, statement by statement
\* ------------------------------------------------------------------------
\* walk.pc says where the execution stands: "idle" before createGameEngine,
\* "pegs" inside its loops, "ready" when the engine object exists and no
\* run is executing, "rows" inside the row loop of run.  walk.log lists the
\* nextFloat calls made, in order, each with the loop it was made from, the
\* loop counters and the number of calls made before it.  walk.first is the
\* first call of run and what it returned; walk.last is the latest call and
\* what it returned, until the next call is made.

\* lines 309-324: seed the generator, start the loops.  readUInt32BE(0)
\* raises a RangeError on a buffer of fewer than four bytes, and nothing in
\* createGameEngine catches it: the call ends there ("threw").  rehashed
\* says whether line 314 replaced the buffer, seedInt is the constant of
\* line 320.
WalkCreate(seed) ==
    /\ walk.pc = "idle"
    /\ walk' = IF Len(SeedBuffer(seed)) < 4
               THEN [pc |-> "threw", seed |-> seed, log |-> <<>>]
               ELSE [pc |-> "pegs", seed |-> seed,
                     rehashed |-> Rehashed(seed), seedInt |-> SeedInt(seed),
                     peg |-> PegLoopInit(NewGenerator(NumOfWord(SeedInt(seed)))),
                     engine |-> NoEngine, run |-> NoRun, row |-> NoRow,
                     dropColumn |-> 0, runs |-> 0,
                     first |-> NoResult, last |-> NoResult, log |-> <<>>]
    /\ UNCHANGED <<ui, gen, engines, rounds, reqs, resps>>

\* one pass through the inner loop body (lines 328-338), and lines 339 and
\* 325 with it when the inner loop ends
WalkPeg ==
    /\ walk.pc = "pegs"
    /\ ~PegLoopDone(walk.peg)
    /\ LET s1 == PegStep(walk.peg)
           entry == [kind |-> "peg", call |-> 0, r |-> walk.peg.r,
                     c |-> walk.peg.c, draw |-> walk.peg.prng.draws]
       IN  walk' = [walk EXCEPT
                      !.peg = IF s1.c <= s1.r THEN s1 ELSE PegRowEnd(s1),
                      !.log = Append(@, entry)]
    /\ UNCHANGED <<ui, gen, engines, rounds, reqs, resps>>

\* lines 344-348: hash the peg map and return the engine object
WalkHash ==
    /\ walk.pc = "pegs"
    /\ PegLoopDone(walk.peg)
    /\ walk' = [walk EXCEPT
                  !.pc = "ready",
                  !.engine = EngineObject(walk.peg)]
    /\ UNCHANGED <<ui, gen, engines, rounds, reqs, resps>>

\* run(dropColumn) is entered: lines 355-356
WalkCall(dropColumn) ==
    /\ walk.pc = "ready"
    /\ walk.runs < MaxRuns
    /\ walk' = [walk EXCEPT !.pc = "rows", !.dropColumn = dropColumn,
                            !.run = RunInit(walk.engine.prng),
                            !.row = NoRow,
                            !.last = NoResult]
    /\ UNCHANGED <<ui, gen, engines, rounds, reqs, resps>>

\* the constants a pass through the row loop body declares: pegIndex, adj
\* and biasPrime as it stands when the decision is made
RowLocals(st, pegMap, dropColumn) ==
    [r |-> st.r, pegIndex |-> Min(st.pos, st.r), adj |-> Adj(dropColumn),
     biasPrime |-> BiasPrime(PegAt(st, pegMap).leftBias, dropColumn)]

\* one pass through the row loop body, lines 366-392
WalkRow ==
    /\ walk.pc = "rows"
    /\ ~RunDone(walk.run)
    /\ LET entry == [kind |-> "row", call |-> walk.runs + 1, r |-> walk.run.r,
                     c |-> Min(walk.run.pos, walk.run.r),
                     draw |-> walk.run.prng.draws]
       IN  walk' = [walk EXCEPT
                      !.run = RowStep(walk.run, walk.engine.pegMap,
                                      walk.dropColumn),
                      !.row = RowLocals(walk.run, walk.engine.pegMap,
                                        walk.dropColumn),
                      !.log = Append(@, entry)]
    /\ UNCHANGED <<ui, gen, engines, rounds, reqs, resps>>

\* lines 394-399: the result is returned; the generator the closure holds
\* is where the row loop left it
WalkReturn ==
    /\ walk.pc = "rows"
    /\ RunDone(walk.run)
    /\ LET res == [called |-> TRUE, dropColumn |-> walk.dropColumn,
                   call |-> walk.runs + 1,
                   result |-> PathResult(walk.engine, walk.run)]
       IN  walk' = [walk EXCEPT
                      !.pc = "ready",
                      !.engine = AfterRun(walk.engine, walk.run),
                      !.row = NoRow,
                      !.runs = @ + 1,
                      !.first = IF walk.runs = 0 THEN res ELSE @,
                      !.last = res]
    /\ UNCHANGED <<ui, gen, engines, rounds, reqs, resps>>

InitWalkSpec == InitGen /\ InitEngines /\ InitWalk /\ InitRounds /\ InitUi

NextWalk ==
    \/ \E seed \in TestSeeds : WalkCreate(seed)
    \/ WalkPeg
    \/ WalkHash
    \/ \E dropColumn \in RunArguments : WalkCall(dropColumn)
    \/ WalkRow
    \/ WalkReturn

SpecWalk == InitWalkSpec /\ [][NextWalk]_vars

\* ------------------------------------------------------------------------
\* Specification SpecUnit: row 0 of an engine, on chosen draws
\* ------------------------------------------------------------------------
\* The first peg of an engine is made from the first draw of the generator,
\* NextState(seedInt), and seedInt is any 32-bit value the first eight
\* digits of a combined seed can spell.  The seed integers below are the
\* ones whose first draw is, in this order: 0x86000000 and 0x9a000000 (the
\* exact bias lies halfway between two millionths and the double product
\* comes out below the half), 0x85ffffff (one step below the first),
\* 0x12000000 and 0x02000000 (halfway, and the product comes out at the
\* half), 0x00000001 and 0xffffffff (the ends of the range), 0x80000000 and
\* 0x80000001 (bias 0.5 and the next value up), 0x90cccccd (bias 0.513125).
PegSeedInts ==
    {Word(16992, 8960), Word(55200, 27904), Word(26572, 57831),
     Word(22304, 10496), Word(17952, 8448), Word(62133, 34089),
     Word(24172, 64743), Word(34816, 16384), Word(31413, 50473),
     Word(52816, 9221)}

\* Generator states from which the next draw is: 0x74000000 (0.453125),
\* 0x73ffffff, 0x80000000 (0.5), 0x80000001, 0x7fffffff, 0x00000001 and
\* 0xffffffff.
RowStates ==
    {Word(64320, 31232), Word(21164, 64231), Word(34816, 16384),
     Word(31413, 50473), Word(54892, 48359), Word(62133, 34089),
     Word(24172, 64743)}

MaxPegs == 2        \* engines whose first row is built in one behaviour

NoUnit == [pc |-> "unit", built |-> {}, row |-> NoResult]

\* lines 320-339 with r = 0: the generator is seeded, the peg of row 0 made
\* and the row pushed; line 344 applied to the peg map as it then stands
UnitPeg(seedInt) ==
    /\ walk.pc = "unit"
    /\ Cardinality(walk.built) < MaxPegs
    /\ LET st == PegRowEnd(PegStep(PegLoopInit(
                     NewGenerator(NumOfWord(seedInt)))))
       IN  walk' = [walk EXCEPT !.built = @ \cup
                      {[seedInt |-> seedInt, rnd |-> st.prng.state,
                        engine |-> EngineObject(st)]}]
    /\ UNCHANGED <<ui, gen, engines, rounds, reqs, resps>>

\* lines 355-392 with r = 0, on the peg map of one of the engines and with
\* the generator in the given state; one row in a behaviour
UnitRow(built, state, dropColumn) ==
    /\ walk.pc = "unit"
    /\ ~walk.row.called
    /\ built \in walk.built
    /\ LET st == RunInit([state |-> state, draws |-> 1])
       IN  walk' = [walk EXCEPT !.row =
                      [called |-> TRUE, dropColumn |-> dropColumn,
                       peg |-> PegAt(st, built.engine.pegMap),
                       before |-> st,
                       locals |-> RowLocals(st, built.engine.pegMap,
                                            dropColumn),
                       after |-> RowStep(st, built.engine.pegMap,
                                         dropColumn)]]
    /\ UNCHANGED <<ui, gen, engines, rounds, reqs, resps>>

InitUnit == InitGen /\ InitEngines /\ walk = NoUnit /\ InitRounds /\ InitUi

NextUnit ==
    \/ \E seedInt \in PegSeedInts : UnitPeg(seedInt)
    \/ \E built \in walk.built, state \in RowStates,
          dropColumn \in RunArguments : UnitRow(built, state, dropColumn)

SpecUnit == InitUnit /\ [][NextUnit]_vars

\* ------------------------------------------------------------------------
\* Specification SpecSeeds: generateCommit and generateCombinedSeed on
\* arbitrary strings
\* ------------------------------------------------------------------------
\* the strings of at most two characters over 'a' and ':'
SeedStrings ==
    {<<>>} \cup {<<x>> : x \in {"a", ":"}}
    \cup {<<x, y>> : x, y \in {"a", ":"}}

SeedClients == {<<"a">>, <<"b", ":">>}

MaxSeedCalls == 2   \* calls of the two functions in one behaviour

NoSeeds == [pc |-> "seeds", made |-> {}]

\* generateCommit and generateCombinedSeed called with the same serverSeed
\* and nonce, as the handlers of a round do
SeedsCall(serverSeed, clientSeed, nonce) ==
    /\ walk.pc = "seeds"
    /\ Cardinality(walk.made) < MaxSeedCalls
    /\ walk' = [walk EXCEPT !.made = @ \cup
                  {[serverSeed |-> serverSeed, clientSeed |-> clientSeed,
                    nonce |-> nonce,
                    preimage |-> CommitPreimage(serverSeed, nonce),
                    commitHex |-> generateCommit(serverSeed, nonce),
                    combinedSeed |->
                        generateCombinedSeed(serverSeed, clientSeed, nonce)]}]
    /\ UNCHANGED <<ui, gen, engines, rounds, reqs, resps>>

InitSeeds == InitGen /\ InitEngines /\ walk = NoSeeds /\ InitRounds /\ InitUi

NextSeeds ==
    \E serverSeed \in SeedStrings, clientSeed \in SeedClients,
       nonce \in SeedStrings : SeedsCall(serverSeed, clientSeed, nonce)

SpecSeeds == InitSeeds /\ [][NextSeeds]_vars

\* ------------------------------------------------------------------------
\* Specification SpecRounds: the Round table and the request handlers
\* ------------------------------------------------------------------------
\* A nullable column, or an optional request parameter, holds Null or
\* Some(value).
Null == <<>>
Some(v) == <<v>>

\* JavaScript truthiness of a nullable string: null and '' are falsy
Truthy(col) == col # Null /\ col[1] # <<>>

\* the row prisma.round.create makes: the data of lines 50-55, the other
\* columns at the defaults of the migration.  id is the row's primary key,
\* given by the database; the model numbers the rows.
NewRound(id, serverSeed, nonce, commitHex) ==
    [id |-> id, status |-> "CREATED", nonce |-> nonce,
     commitHex |-> commitHex, serverSeed |-> Some(serverSeed),
     clientSeed |-> Null, combinedSeed |-> Null, pegMapHash |-> Null,
     dropColumn |-> Null, binIndex |-> Null, payoutMultiplier |-> Null,
     betCents |-> Null, pathJson |-> Null, revealedAt |-> Null]

\* prisma.round.findUnique({ where: { id } })
FindUnique(id) == IF id \in 1..Len(rounds) THEN Some(rounds[id]) ELSE Null

\* A response: the handler that sent it, the :id of the request, the HTTP
\* status and the JSON body.
Response(kind, id, status, body) ==
    [kind |-> kind, id |-> id, status |-> status, body |-> body]

ErrorBody(message) == [error |-> message]

\* requests other than commit taken up so far: those answered and those
\* suspended.  Every row of the table has its one commit response.
Requests == Cardinality(reqs) + Cardinality(resps) - Len(rounds)

\* A number of a request body is kept as its count of tenths, so that a
\* dropColumn of 6.5 can be sent.
Tenths == 10
IsInteger(x) == x % Tenths = 0

\* StartRoundSchema.parse(req.body) succeeds
StartRoundSchema(body) ==
    /\ Len(body.clientSeed) >= 1
    /\ body.betCents >= 1
    /\ body.dropColumn >= 0 * Tenths /\ body.dropColumn <= 12 * Tenths

\* --- inputs -------------------------------------------------------------
\* What one commit request draws: crypto.randomBytes(32).toString('hex'),
\* 64 hexadecimal digits, for the server seed and
\* crypto.randomBytes(8).toString('hex'), 16 hexadecimal digits, for the
\* nonce.  Two draws are given, different in both parts.
Secrets ==
    {[serverSeed |->
          <<"b", "2", "a", "5", "f", "3", "f", "3", "2", "a", "4", "d",
            "9", "c", "6", "e", "e", "7", "a", "8", "c", "1", "d", "3",
            "3", "4", "5", "6", "6", "7", "7", "8", "9", "0", "a", "b",
            "c", "d", "e", "f", "f", "e", "d", "c", "b", "a", "0", "9",
            "8", "7", "6", "5", "4", "3", "2", "1", "f", "f", "e", "e",
            "d", "d", "c", "c">>,
      nonce |->
          <<"0", "0", "0", "0", "0", "0", "0", "0", "0", "0", "0", "0",
            "0", "0", "a", "2">>],
     [serverSeed |->
          <<"0", "0", "0", "0", "0", "0", "0", "0", "0", "0", "0", "0",
            "0", "0", "0", "0", "0", "0", "0", "0", "0", "0", "0", "0",
            "0", "0", "0", "0", "0", "0", "0", "0", "0", "0", "0", "0",
            "0", "0", "0", "0", "0", "0", "0", "0", "0", "0", "0", "0",
            "0", "0", "0", "0", "0", "0", "0", "0", "0", "0", "0", "0",
            "0", "0", "f", "f">>,
      nonce |->
          <<"9", "f", "3", "c", "1", "e", "5", "b", "7", "d", "2", "0",
            "4", "a", "6", "8">>]}

ClientSeeds ==
    {
     <<"c", "a", "n", "d", "i", "d", "a", "t", "e", "-", "h", "e", "l",
       "l", "o">>,
     <<"a">>}

\* Request bodies of start: every client seed with the two edge columns, a
\* column that is not an integer, and one body for each rule of the schema
\* that can fail.
StartBodies ==
    {[clientSeed |-> c, betCents |-> 100, dropColumn |-> d * Tenths] :
        c \in ClientSeeds, d \in {0, DROP_COLUMNS - 1}}
    \cup {[clientSeed |-> <<"a">>, betCents |-> 100, dropColumn |-> 65],
          [clientSeed |-> <<>>, betCents |-> 100, dropColumn |-> 60],
          [clientSeed |-> <<"a">>, betCents |-> 0, dropColumn |-> 60],
          [clientSeed |-> <<"a">>, betCents |-> 100, dropColumn |-> 130],
          [clientSeed |-> <<"a">>, betCents |-> 100, dropColumn |-> -10]}

\* createGameEngine(combinedSeed) depends on its argument alone.  In this
\* specification the variable engines holds, from the initial state on and
\* unchanged, the engine objects for the combined seeds that the inputs
\* above can give, so that a handler's call takes the object as it is right
\* after construction instead of building the peg map again; for any other
\* argument the call is evaluated as it stands.
CombinedSeeds ==
    {generateCombinedSeed(secret.serverSeed, c, secret.nonce) :
        secret \in Secrets, c \in ClientSeeds}

BuiltEngines ==
    {[seed |-> seed, engine |-> createGameEngine(seed)] : seed \in CombinedSeeds}

NewEngine(combinedSeed) ==
    IF \E built \in engines : built.seed = combinedSeed
    THEN (CHOOSE built \in engines : built.seed = combinedSeed).engine
    ELSE createGameEngine(combinedSeed)

\* payout multipliers by bin, in tenths: 10, 5, 2, 1, 0.5, 0.2, ...
multipliers == <<100, 50, 20, 10, 5, 2, 2, 2, 5, 10, 20, 50, 100>>

\* the client's PAYTABLE (PlinkoBoard.tsx), in tenths
PAYTABLE == <<100, 50, 20, 10, 5, 2, 2, 2, 5, 10, 20, 50, 100>>

\* the payout looked up one bin to the right
OutcomeShifted(combinedSeed, result) ==
    [combinedSeed |-> combinedSeed, result |-> result,
     payoutMultiplier |-> multipliers[Min(result.binIndex + 2, DROP_COLUMNS)]]

\* lines 98-113: the engine is built and run, the payout looked up
Outcome(combinedSeed, result) ==
    [combinedSeed |-> combinedSeed, result |-> result,
     payoutMultiplier |-> multipliers[result.binIndex + 1]]

StartEngine(combinedSeed, dropColumn) ==
    Outcome(combinedSeed,
            RunEngine(NewEngine(combinedSeed), dropColumn).result)

\* lines 95-113, for the row that findUnique gave and the parsed body
StartCompute(round, body) ==
    StartEngine(generateCombinedSeed(round.serverSeed[1], body.clientSeed,
                                     round.nonce),
                body.dropColumn \div Tenths)

\* the row after prisma.round.update with the data of lines 118-130
StartData(round, body, out) ==
    [round EXCEPT !.status = "STARTED",
                  !.clientSeed = Some(body.clientSeed),
                  !.combinedSeed = Some(out.combinedSeed),
                  !.pegMapHash = Some(out.result.pegMapHash),
                  !.dropColumn = Some(body.dropColumn \div Tenths),
                  !.binIndex = Some(out.result.binIndex),
                  !.payoutMultiplier = Some(out.payoutMultiplier),
                  !.betCents = Some(body.betCents),
                  !.pathJson = Some(StringifyPath(out.result.path))]

\* the body of the start response, lines 133-140
StartBody(id, out) ==
    [roundId |-> id, pegMapHash |-> out.result.pegMapHash,
     binIndex |-> out.result.binIndex,
     payoutMultiplier |-> out.payoutMultiplier, path |-> out.result.path]

\* the reveal response with the seed the round played with in the place of
\* the server's seed
RevealBodyCombined(updated) ==
    [serverSeed |-> updated.combinedSeed, clientSeed |-> updated.clientSeed,
     nonce |-> updated.nonce, combinedSeed |-> updated.combinedSeed]

\* the body of the reveal response, lines 171-176
RevealBody(updated) ==
    [serverSeed |-> updated.serverSeed, clientSeed |-> updated.clientSeed,
     nonce |-> updated.nonce, combinedSeed |-> updated.combinedSeed]

\* GET /rounds/:id, lines 194-198: the copy of the row that is sent
SafeRound(round) ==
    IF round.status # "REVEALED"
    THEN [round EXCEPT !.serverSeed = Null, !.combinedSeed = Null]
    ELSE round

\* Number(text) for a string of decimal digits; Number('') is 0
RECURSIVE DecimalValue(_, _)
DecimalValue(text, i) ==
    IF i = 0 THEN 0 ELSE 10 * DecimalValue(text, i - 1) + HexVal(text[i])

Number(text) == DecimalValue(text, Len(text))

\* String(n) for an integer n >= 0
RECURSIVE String(_)
String(n) ==
    IF n < 10 THEN <<Digit(n)>> ELSE String(n \div 10) \o <<Digit(n % 10)>>

\* lines 209-211 of GET /verify: a parameter is missing
VerifyMissing(query) ==
    \/ ~Truthy(query.serverSeed) \/ ~Truthy(query.clientSeed)
    \/ ~Truthy(query.nonce) \/ query.dropColumn = Null

VerifyResult(commitHex, combinedSeed, result) ==
    [valid |-> TRUE, commitHex |-> commitHex, combinedSeed |-> combinedSeed,
     pegMapHash |-> result.pegMapHash, binIndex |-> result.binIndex,
     path |-> result.path]

VerifyEngine(commitHex, combinedSeed, dropColNum) ==
    VerifyResult(commitHex, combinedSeed,
                 RunEngine(NewEngine(combinedSeed), dropColNum).result)

\* verify joining the three strings in another order than start does
VerifyBodyNonceFirst(query) ==
    VerifyEngine(generateCommit(query.serverSeed[1], query.nonce[1]),
                 generateCombinedSeed(query.serverSeed[1], query.nonce[1],
                                      query.clientSeed[1]),
                 Number(query.dropColumn[1]))

\* lines 213-227 of GET /verify: the body of the response
VerifyBody(query) ==
    VerifyEngine(generateCommit(query.serverSeed[1], query.nonce[1]),
                 generateCombinedSeed(query.serverSeed[1],
                                      query.clientSeed[1], query.nonce[1]),
                 Number(query.dropColumn[1]))

\* the query of a caller who verifies a round with the values of its row
QueryOf(round) ==
    [serverSeed |-> round.serverSeed, clientSeed |-> round.clientSeed,
     nonce |-> Some(round.nonce),
     dropColumn |-> IF round.dropColumn = Null THEN Null
                    ELSE Some(String(round.dropColumn[1]))]

\* --- bounds -------------------------------------------------------------
MaxRounds == 2      \* commit requests
MaxRequests == 3    \* requests of the other kinds

\* the :id values of requests: the rows there can be, and one more
RoundIds == 1..(MaxRounds + 1)

\* --- handlers -----------------------------------------------------------
\* POST /rounds/commit, lines 43-74
Commit(serverSeed, nonce) ==
    /\ LET commitHex == generateCommit(serverSeed, nonce)
           round == NewRound(Len(rounds) + 1, serverSeed, nonce, commitHex)
           stored == IF ~Truthy(round.serverSeed)
                     THEN [round EXCEPT !.serverSeed = Some(serverSeed)]
                     ELSE round
       IN  /\ rounds' = Append(rounds, stored)
           /\ resps' = resps \cup
                {Response("commit", round.id, 200,
                          [roundId |-> round.id, commitHex |-> commitHex,
                           nonce |-> nonce])}
    /\ UNCHANGED <<ui, gen, engines, walk, reqs>>

\* POST /rounds/:id/start, lines 80-81 and 144-146: the body does not parse
StartRejected(id, body) ==
    /\ ~StartRoundSchema(body)
    /\ resps' = resps \cup
         {Response("start", id, 400,
                   ErrorBody("Invalid request data"))}
    /\ UNCHANGED <<ui, gen, engines, walk, rounds, reqs>>

\* POST /rounds/:id/start, lines 80-93: the row is read and looked at; the
\* handler goes on with the row it read
StartFind(id, body) ==
    /\ StartRoundSchema(body)
    /\ LET found == FindUnique(id)
       IN  IF found = Null
           THEN /\ resps' = resps \cup
                     {Response("start", id, 404,
                               ErrorBody("Round not found"))}
                /\ UNCHANGED reqs
           ELSE IF found[1].status # "CREATED"
           THEN /\ resps' = resps \cup
                     {Response("start", id, 400,
                               ErrorBody("Round already started or finished"))}
                /\ UNCHANGED reqs
           ELSE IF ~Truthy(found[1].serverSeed)
           THEN /\ resps' = resps \cup
                     {Response("start", id, 500,
                               ErrorBody("Server seed missing internally"))}
                /\ UNCHANGED reqs
           ELSE /\ reqs' = reqs \cup
                     {[kind |-> "start", id |-> id, body |-> body,
                       round |-> found[1]]}
                /\ UNCHANGED resps
    /\ UNCHANGED <<ui, gen, engines, walk, rounds>>

\* POST /rounds/:id/start, lines 95-140: the outcome is computed from the
\* row that was read, the row is updated and the response sent.  The
\* dropColumn column is INTEGER: an update with any other number is refused
\* and the handler ends in next(error).
StartUpdate(req) ==
    /\ req \in reqs
    /\ req.kind = "start"
    /\ reqs' = reqs \ {req}
    /\ IF ~IsInteger(req.body.dropColumn)
       THEN /\ resps' = resps \cup
                 {Response("start", req.id, 500,
                           ErrorBody("Internal Server Error"))}
            /\ UNCHANGED rounds
       ELSE \E out \in {StartCompute(req.round, req.body)} :
               /\ rounds' = [rounds EXCEPT
                               ![req.id] = StartData(@, req.body, out)]
               /\ resps' = resps \cup
                    {Response("start", req.id, 200,
                              StartBody(req.id, out))}
    /\ UNCHANGED <<ui, gen, engines, walk>>

\* POST /rounds/:id/reveal, lines 155-161
RevealFind(id) ==
    /\ LET found == FindUnique(id)
       IN  IF found = Null
           THEN /\ resps' = resps \cup
                     {Response("reveal", id, 404,
                               ErrorBody("Round not found"))}
                /\ UNCHANGED reqs
           ELSE IF found[1].status = "CREATED"
           THEN /\ resps' = resps \cup
                     {Response("reveal", id, 400,
                               ErrorBody("Round not started yet"))}
                /\ UNCHANGED reqs
           ELSE /\ reqs' = reqs \cup
                     {[kind |-> "reveal", id |-> id]}
                /\ UNCHANGED resps
    /\ UNCHANGED <<ui, gen, engines, walk, rounds>>

\* POST /rounds/:id/reveal, lines 163-176
RevealUpdate(req) ==
    /\ req \in reqs
    /\ req.kind = "reveal"
    /\ reqs' = reqs \ {req}
    /\ LET updated == [rounds[req.id] EXCEPT !.status = "REVEALED",
                                             !.revealedAt = Some("now")]
       IN  /\ rounds' = [rounds EXCEPT ![req.id] = updated]
           /\ resps' = resps \cup
                {Response("reveal", req.id, 200, RevealBody(updated))}
    /\ UNCHANGED <<ui, gen, engines, walk>>

\* GET /rounds/:id, lines 184-187: the row is read
GetFind(id) ==
    /\ LET found == FindUnique(id)
       IN  IF found = Null
           THEN /\ resps' = resps \cup
                     {Response("get", id, 404,
                               ErrorBody("Round not found"))}
                /\ UNCHANGED reqs
           ELSE /\ reqs' = reqs \cup
                     {[kind |-> "get", id |-> id, round |-> found[1]]}
                /\ UNCHANGED resps
    /\ UNCHANGED <<ui, gen, engines, walk, rounds>>

\* GET /rounds/:id, lines 194-199: the copy of the row that was read is
\* sent
GetRound(req) ==
    /\ req \in reqs
    /\ req.kind = "get"
    /\ reqs' = reqs \ {req}
    /\ resps' = resps \cup
         {Response("get", req.id, 200, SafeRound(req.round))}
    /\ UNCHANGED <<ui, gen, engines, walk, rounds>>

\* GET /verify, lines 205-230.  The response is kept with the query it
\* answers.
Verify(query) ==
    /\ resps' = resps \cup
         {IF VerifyMissing(query)
          THEN [kind |-> "verify", query |-> query,
                status |-> 400, body |-> ErrorBody("Missing parameters")]
          ELSE [kind |-> "verify", query |-> query,
                status |-> 200, body |-> VerifyBody(query)]}
    /\ UNCHANGED <<ui, gen, engines, walk, rounds, reqs>>

InitRoundsSpec == InitGen /\ engines = BuiltEngines /\ InitWalk /\ InitRounds /\ InitUi

NextRounds ==
    \/ /\ Len(rounds) < MaxRounds
       /\ \E secret \in Secrets : Commit(secret.serverSeed, secret.nonce)
    \/ /\ Requests < MaxRequests
       /\ \E id \in RoundIds, body \in StartBodies : StartRejected(id, body)
    \/ /\ Requests < MaxRequests
       /\ \E id \in RoundIds, body \in StartBodies : StartFind(id, body)
    \/ \E req \in reqs : StartUpdate(req)
    \/ /\ Requests < MaxRequests
       /\ \E id \in RoundIds : RevealFind(id)
    \/ \E req \in reqs : RevealUpdate(req)
    \/ /\ Requests < MaxRequests
       /\ \E id \in RoundIds : GetFind(id)
    \/ \E req \in reqs : GetRound(req)
    \/ /\ Requests < MaxRequests
       /\ \E id \in 1..Len(rounds) : Verify(QueryOf(rounds[id]))

SpecRounds == InitRoundsSpec /\ [][NextRounds]_vars

\* ------------------------------------------------------------------------
\* Specification SpecRace: the handlers on one round, requests overlapping
\* ------------------------------------------------------------------------
\* One commit, and on its round two start requests that differ in the
\* client seed, one reveal, one get and one verify; every handler may be
\* suspended at its awaits while the others go on.
RaceStarts == 2     \* start requests
RaceOthers == 1     \* reveal, get and verify requests, of each kind

RaceSecret == CHOOSE secret \in Secrets : secret.nonce[16] = "2"

RaceBodies ==
    {body \in StartBodies : body.betCents = 100 /\ body.dropColumn = 0}

\* query strings of GET /verify that name a column off the board
RaceColumns == {<<"1", "3">>, <<"1", "0", "0">>}

\* requests of one kind taken up so far: those answered and those suspended
RequestsOf(kind) ==
    Cardinality({req \in reqs : req.kind = kind})
    + Cardinality({resp \in resps : resp.kind = kind})

NextRace ==
    \/ /\ Len(rounds) < 1
       /\ Commit(RaceSecret.serverSeed, RaceSecret.nonce)
    \/ /\ RequestsOf("start") < RaceStarts
       /\ \E body \in RaceBodies : StartFind(1, body)
    \/ \E req \in reqs : StartUpdate(req)
    \/ /\ RequestsOf("reveal") < RaceOthers
       /\ RevealFind(1)
    \/ \E req \in reqs : RevealUpdate(req)
    \/ /\ RequestsOf("get") < RaceOthers
       /\ GetFind(1)
    \/ \E req \in reqs : GetRound(req)
    \/ /\ RequestsOf("verify") < RaceOthers
       /\ \E id \in 1..Len(rounds), column \in RaceColumns :
             Verify([QueryOf(rounds[id]) EXCEPT !.dropColumn = Some(column)])

SpecRace == InitRoundsSpec /\ [][NextRace]_vars

\* ------------------------------------------------------------------------
\* Specification SpecGame: the PlinkoGame component
\* ------------------------------------------------------------------------
\* The state of the component is what its useState hooks hold.  A handler
\* is a closure of the render that made it and reads the state of that
\* render.  The keydown listener is registered by the effect of lines
\* 56-92, whose dependencies are dropColumn and isDropping: the listener in
\* force, and the handleDrop it calls, are those of the last render in
\* which one of the two had changed.  The server is kept as the status of
\* each round it has created, in the order of their creation.
MaxGameRounds == 3  \* rounds committed in one behaviour

\* values the controls are set to
GameColumns == {0, 6, 12}
GameBets == {100, 250}
GameSeeds == {<<>>, <<"a">>}

\* `client-${Date.now()}-${Math.random()...}`
AutoSeed == <<"client-">>

\* what the closures of a render read
Snapshot(g) ==
    [round |-> g.round, dropColumn |-> g.dropColumn,
     betAmount |-> g.betAmount, clientSeed |-> g.clientSeed,
     isDropping |-> g.isDropping]

\* the render that follows a state change, and its effects: the keydown
\* effect runs again when a dependency differs from the render before
Rendered(before, g) ==
    IF g.dropColumn # before.dropColumn \/ g.isDropping # before.isDropping
    THEN [g EXCEPT !.keys = Snapshot(g)]
    ELSE g

\* The board's animation effect (PlinkoBoard.tsx lines 174-351).  anim says
\* that a run of the effect is animating: it started with isDropping true
\* and a path, and its cleanup has not run.  board holds the run's
\* animationStopped, whether its safety timeout and the timer of lines
\* 260-265 are pending, and how often the run has called
\* onAnimationComplete; warn is the warning the run has logged.  The bin
\* of a played round is one of the 13 the board draws, so the branch of
\* lines 228-233 is not taken.
NoBoard ==
    [stopped |-> TRUE, safety |-> FALSE, landing |-> FALSE, calls |-> 0,
     warn |-> ""]

\* lines 191-209 and 341: a run starts
StartedBoard ==
    [stopped |-> FALSE, safety |-> TRUE, landing |-> FALSE, calls |-> 0,
     warn |-> ""]

\* lines 343-349: the cleanup of the effect, when a dependency has changed
Cleanup(g) ==
    IF g.anim
    THEN [g EXCEPT !.anim = FALSE, !.board.stopped = TRUE,
                   !.board.safety = FALSE]
    ELSE g

\* the component after mounting, lines 21-31 and the first run of the
\* keydown effect
NewGame ==
    [pc |-> "game", round |-> Null, dropColumn |-> 6, betAmount |-> 100,
     clientSeed |-> <<>>, isDropping |-> FALSE,
     keys |-> [round |-> Null, dropColumn |-> 6, betAmount |-> 100,
               clientSeed |-> <<>>, isDropping |-> FALSE],
     server |-> <<>>, commits |-> {}, drop |-> Null, anim |-> FALSE,
     board |-> NoBoard, alert |-> ""]

\* handleDrop of the render c, called when the component is in state g,
\* lines 139-167: up to the fetch of the start request
HandleDrop(g, c) ==
    IF c.round = Null
    THEN [g EXCEPT !.alert = "Please start a round first"]
    ELSE IF c.isDropping THEN g
    ELSE Rendered(g, [g EXCEPT
             !.isDropping = TRUE,
             !.drop = Some([roundId |-> c.round[1].id,
                            clientSeed |-> IF c.clientSeed = <<>>
                                           THEN AutoSeed ELSE c.clientSeed,
                            betCents |-> c.betAmount,
                            dropColumn |-> c.dropColumn])])

OpenGame ==
    /\ ui.pc = "closed"
    /\ ui' = NewGame
    /\ UNCHANGED <<gen, engines, walk, rounds, reqs, resps>>

\* handleCommit, lines 112-116: the request is sent and the server creates
\* the round
HandleCommit(g) ==
    [g EXCEPT !.server = Append(@, "CREATED"),
              !.commits = @ \cup {Len(g.server) + 1}]

\* a click on Start Round, shown while there is no round
ClickStartRound ==
    /\ ui.pc = "game"
    /\ ui.round = Null /\ ~ui.isDropping
    /\ Len(ui.server) < MaxGameRounds
    /\ ui' = HandleCommit(ui)
    /\ UNCHANGED <<gen, engines, walk, rounds, reqs, resps>>

\* handleCommit, lines 123-131: the response has come.  A round without a
\* path while a ball is falling ends the board's animation effect
\* (PlinkoBoard.tsx lines 343-351 and 187-189).
CommitResponse(id) ==
    /\ ui.pc = "game"
    /\ id \in ui.commits
    /\ ui' = Rendered(ui, Cleanup([ui EXCEPT
                !.round = Some([id |-> id, status |-> "CREATED"]),
                !.clientSeed = <<>>,
                !.commits = @ \ {id}]))
    /\ UNCHANGED <<gen, engines, walk, rounds, reqs, resps>>

\* the slider and the column buttons, GameControls.tsx lines 37-58
ChangeDropColumn(col) ==
    /\ ui.pc = "game"
    /\ ~ui.isDropping
    /\ ui' = Rendered(ui, [ui EXCEPT !.dropColumn = col])
    /\ UNCHANGED <<gen, engines, walk, rounds, reqs, resps>>

\* GameControls.tsx lines 64-72
ChangeBetAmount(amount) ==
    /\ ui.pc = "game"
    /\ ~ui.isDropping
    /\ ui' = Rendered(ui, [ui EXCEPT !.betAmount = amount])
    /\ UNCHANGED <<gen, engines, walk, rounds, reqs, resps>>

\* GameControls.tsx lines 80-88
ChangeClientSeed(seed) ==
    /\ ui.pc = "game"
    /\ ~ui.isDropping
    /\ ui' = Rendered(ui, [ui EXCEPT !.clientSeed = seed])
    /\ UNCHANGED <<gen, engines, walk, rounds, reqs, resps>>

\* ArrowLeft (step -1) and ArrowRight (step 1), lines 58-68
KeyArrow(step) ==
    /\ ui.pc = "game"
    /\ ui' = IF ui.keys.isDropping THEN ui
             ELSE Rendered(ui, [ui EXCEPT !.dropColumn =
                      IF step < 0 THEN (IF @ - 1 < 0 THEN 0 ELSE @ - 1)
                      ELSE Min(12, @ + 1)])
    /\ UNCHANGED <<gen, engines, walk, rounds, reqs, resps>>

\* the Space key, lines 58 and 69-72: handleDrop of the listener's render
KeySpace ==
    /\ ui.pc = "game"
    /\ ui' = IF ui.keys.isDropping THEN ui ELSE HandleDrop(ui, ui.keys)
    /\ UNCHANGED <<gen, engines, walk, rounds, reqs, resps>>

\* a click on Drop Ball, shown while there is a round: handleDrop of the
\* render on screen
ClickDrop ==
    /\ ui.pc = "game"
    /\ ui.round # Null /\ ~ui.isDropping
    /\ ui' = HandleDrop(ui, Snapshot(ui))
    /\ UNCHANGED <<gen, engines, walk, rounds, reqs, resps>>

\* handleDrop, lines 169-192: the start response has come.  The server
\* plays a round that is CREATED and refuses any other.
StartResponse ==
    /\ ui.pc = "game"
    /\ ui.drop # Null
    /\ LET req == ui.drop[1]
       IN  ui' = IF ui.server[req.roundId] = "CREATED"
                 THEN Rendered(ui, [ui EXCEPT
                          !.server[req.roundId] = "STARTED",
                          !.round = Some([id |-> req.roundId,
                                          status |-> "STARTED"]),
                          !.drop = Null,
                          !.anim = TRUE,
                          !.board = StartedBoard])
                 ELSE Rendered(ui, [ui EXCEPT
                          !.alert = "Round already started or finished",
                          !.isDropping = FALSE,
                          !.drop = Null])
    /\ UNCHANGED <<gen, engines, walk, rounds, reqs, resps>>

\* the board calls onAnimationComplete: handleAnimationComplete, lines
\* 195-236, with the round of the latest render.  The server reveals a
\* round that has been started and refuses one that has not; the get
\* succeeds, isDropping is set back and the next round is committed.
HandleAnimationComplete(g) ==
    LET id == g.round[1].id
        called == [g EXCEPT !.board.calls = @ + 1]
        revealed == IF g.server[id] = "CREATED" THEN called
                    ELSE [called EXCEPT
                            !.server[id] = "REVEALED",
                            !.round = Some([id |-> id, status |-> "REVEALED"])]
    IN  HandleCommit(Rendered(g, Cleanup([revealed EXCEPT
                                            !.isDropping = FALSE])))

\* PlinkoBoard.tsx lines 242-267: a frame finds the ball at its bin
ReachBin ==
    /\ ui.pc = "game"
    /\ ui.anim /\ ~ui.board.stopped
    /\ ui' = [ui EXCEPT !.board.stopped = TRUE, !.board.safety = FALSE,
                        !.board.landing = TRUE]
    /\ UNCHANGED <<gen, engines, walk, rounds, reqs, resps>>

\* PlinkoBoard.tsx lines 214-222: the frame after the thousandth
FrameLimit ==
    /\ ui.pc = "game"
    /\ ui.anim /\ ~ui.board.stopped
    /\ Len(ui.server) < MaxGameRounds
    /\ ui' = HandleAnimationComplete(
                [ui EXCEPT !.board.stopped = TRUE, !.board.safety = FALSE,
                           !.board.warn = "Animation frame limit reached"])
    /\ UNCHANGED <<gen, engines, walk, rounds, reqs, resps>>

\* PlinkoBoard.tsx lines 203-209: the safety timeout fires
SafetyTimeout ==
    /\ ui.pc = "game"
    /\ ui.board.safety
    /\ Len(ui.server) < MaxGameRounds
    /\ ui' = IF ui.board.stopped
             THEN [ui EXCEPT !.board.safety = FALSE]
             ELSE HandleAnimationComplete(
                      [ui EXCEPT !.board.stopped = TRUE,
                                 !.board.safety = FALSE,
                                 !.board.warn = "Animation timeout"])
    /\ UNCHANGED <<gen, engines, walk, rounds, reqs, resps>>

\* PlinkoBoard.tsx lines 260-265: the timer set when the ball reached its
\* bin fires
AnimationComplete ==
    /\ ui.pc = "game"
    /\ ui.board.landing
    /\ Len(ui.server) < MaxGameRounds
    /\ ui' = HandleAnimationComplete([ui EXCEPT !.board.landing = FALSE])
    /\ UNCHANGED <<gen, engines, walk, rounds, reqs, resps>>

InitGame == InitGen /\ InitEngines /\ InitWalk /\ InitRounds /\ InitUi

NextGame ==
    \/ OpenGame
    \/ ClickStartRound
    \/ \E id \in 1..MaxGameRounds : CommitResponse(id)
    \/ \E col \in GameColumns : ChangeDropColumn(col)
    \/ \E amount \in GameBets : ChangeBetAmount(amount)
    \/ \E seed \in GameSeeds : ChangeClientSeed(seed)
    \/ \E step \in {-1, 1} : KeyArrow(step)
    \/ KeySpace
    \/ ClickDrop
    \/ StartResponse
    \/ ReachBin
    \/ FrameLimit
    \/ SafetyTimeout
    \/ AnimationComplete

SpecGame == InitGame /\ [][NextGame]_vars

\* ------------------------------------------------------------------------
\* Specification SpecVerifier: the Verifier page
\* ------------------------------------------------------------------------
\* The state of the page is what its useState hooks hold.  handleLoadRound
\* and handleVerify are closures of the render that made them: the
\* handleVerify that the timer of lines 86-88 calls is the one of the
\* render in which Load Round was clicked, and reads the form as it was in
\* that render.  The server is a table of rounds, read through the get
\* handler's SafeRound; the answer of GET /verify to a query is kept as the
\* query it answers.
VerifierRounds ==
    [id \in {"r1", "r2", "r3"} |->
        IF id = "r1"
        THEN [id |-> id, status |-> "REVEALED", serverSeed |-> Some("s1"),
              clientSeed |-> Some("c1"), nonce |-> "n1",
              combinedSeed |-> Some("k1"), dropColumn |-> Some(0)]
        ELSE IF id = "r2"
        THEN [id |-> id, status |-> "REVEALED", serverSeed |-> Some("s2"),
              clientSeed |-> Some("c2"), nonce |-> "n2",
              combinedSeed |-> Some("k2"), dropColumn |-> Some(12)]
        ELSE [id |-> id, status |-> "STARTED", serverSeed |-> Some("s3"),
              clientSeed |-> Some("c3"), nonce |-> "n3",
              combinedSeed |-> Some("k3"), dropColumn |-> Some(5)]]

\* the clicks on Load Round of one behaviour
MaxLoads == 2

\* what is typed into the fields
TypedRoundIds == {"r1", "r2", "r3", "r9"}
TypedSeeds == {"x"}
TypedColumns == {3}

\* the form as the closures of a render read it
FormOf(v) ==
    [serverSeed |-> v.serverSeed, clientSeed |-> v.clientSeed,
     nonce |-> v.nonce, dropColumn |-> v.dropColumn]

\* lines 16-23
NewVerifier ==
    [pc |-> "verifier", serverSeed |-> "", clientSeed |-> "", nonce |-> "",
     dropColumn |-> 6, roundId |-> "", result |-> Null, loading |-> FALSE,
     error |-> "", clicks |-> 0, loads |-> {}, timers |-> {},
     verifies |-> {}]

\* round.serverSeed || '' for a nullable string
OrEmpty(col) == IF col = Null THEN "" ELSE col[1]

\* round.dropColumn || 6
OrSix(col) == IF col = Null \/ col[1] = 0 THEN 6 ELSE col[1]

\* handleVerify of a render whose form was c, called when the page is in
\* state v, lines 25-43: up to the fetch
HandleVerify(v, c) ==
    IF c.serverSeed = "" \/ c.clientSeed = "" \/ c.nonce = ""
    THEN [v EXCEPT !.error = "Please fill in all required fields"]
    ELSE [v EXCEPT !.loading = TRUE, !.error = "", !.result = Null,
                   !.verifies = @ \cup {c}]

OpenVerifier ==
    /\ ui.pc = "closed"
    /\ ui' = NewVerifier
    /\ UNCHANGED <<gen, engines, walk, rounds, reqs, resps>>

\* lines 109-116
TypeRoundId(id) ==
    /\ ui.pc = "verifier"
    /\ ui' = [ui EXCEPT !.roundId = id]
    /\ UNCHANGED <<gen, engines, walk, rounds, reqs, resps>>

\* lines 132-176: one of the four fields of the form is changed
TypeField(field, value) ==
    /\ ui.pc = "verifier"
    /\ ui' = [ui EXCEPT ![field] = value]
    /\ UNCHANGED <<gen, engines, walk, rounds, reqs, resps>>

\* a click on Load Round, lines 57-67
ClickLoadRound ==
    /\ ui.pc = "verifier"
    /\ ~ui.loading
    /\ ui' = IF ui.roundId = ""
             THEN [ui EXCEPT !.error = "Please enter a round ID"]
             ELSE [ui EXCEPT !.loading = TRUE, !.error = "",
                             !.clicks = @ + 1,
                             !.loads = @ \cup {[roundId |-> ui.roundId,
                                                form |-> FormOf(ui)]}]
    /\ UNCHANGED <<gen, engines, walk, rounds, reqs, resps>>

\* handleLoadRound, lines 68-92: the answer of GET /rounds/:id has come,
\* or the fetch has failed
LoadResponse(ld, reached) ==
    /\ ui.pc = "verifier"
    /\ ld \in ui.loads
    /\ LET v == [ui EXCEPT !.loads = @ \ {ld}]
           round == SafeRound(VerifierRounds[ld.roundId])
       IN  ui' = IF ~reached \/ ld.roundId \notin DOMAIN VerifierRounds
                 THEN [v EXCEPT !.error = "Round not found",
                                !.loading = FALSE]
                 ELSE IF round.status # "REVEALED"
                 THEN [v EXCEPT !.error = "Round not yet revealed",
                                !.loading = FALSE]
                 ELSE [v EXCEPT !.serverSeed = OrEmpty(round.serverSeed),
                                !.clientSeed = OrEmpty(round.clientSeed),
                                !.nonce = round.nonce,
                                !.dropColumn = OrSix(round.dropColumn),
                                !.timers = @ \cup {ld}]
    /\ UNCHANGED <<gen, engines, walk, rounds, reqs, resps>>

\* the timer of lines 86-88 fires
TimerFires(ld) ==
    /\ ui.pc = "verifier"
    /\ ld \in ui.timers
    /\ ui' = HandleVerify([ui EXCEPT !.timers = @ \ {ld}], ld.form)
    /\ UNCHANGED <<gen, engines, walk, rounds, reqs, resps>>

\* a click on Verify, lines 179-185
ClickVerify ==
    /\ ui.pc = "verifier"
    /\ ~ui.loading
    /\ ui.serverSeed # "" /\ ui.clientSeed # "" /\ ui.nonce # ""
    /\ ui' = HandleVerify(ui, FormOf(ui))
    /\ UNCHANGED <<gen, engines, walk, rounds, reqs, resps>>

\* handleVerify, lines 44-54: the answer of GET /verify has come, or the
\* request has failed
VerifyResponse(query, ok) ==
    /\ ui.pc = "verifier"
    /\ query \in ui.verifies
    /\ LET v == [ui EXCEPT !.verifies = @ \ {query}, !.loading = FALSE]
       IN  ui' = IF ok THEN [v EXCEPT !.result = Some(query)]
                 ELSE [v EXCEPT !.error = "Verification failed"]
    /\ UNCHANGED <<gen, engines, walk, rounds, reqs, resps>>

\* the fetches and timers of the page that have not come back
Pending(field) ==
    IF ui.pc = "verifier" THEN ui[field]
    ELSE IF field = "clicks" THEN 0 ELSE {}

InitVerifier == InitGen /\ InitEngines /\ InitWalk /\ InitRounds /\ InitUi

NextVerifier ==
    \/ OpenVerifier
    \/ \E id \in TypedRoundIds : TypeRoundId(id)
    \/ \E field \in {"serverSeed", "clientSeed", "nonce"},
          value \in TypedSeeds : TypeField(field, value)
    \/ \E value \in TypedColumns : TypeField("dropColumn", value)
    \/ Pending("clicks") < MaxLoads /\ ClickLoadRound
    \/ \E ld \in Pending("loads"), reached \in BOOLEAN : LoadResponse(ld, reached)
    \/ \E ld \in Pending("timers") : TimerFires(ld)
    \/ ClickVerify
    \/ \E query \in Pending("verifies"), ok \in BOOLEAN : VerifyResponse(query, ok)

SpecVerifier == InitVerifier /\ [][NextVerifier]_vars

\* ========================================================================
\* Properties
\* ========================================================================
Results == {"Left", "Right"}

RECURSIVE CountRight(_, _)
CountRight(path, i) ==
    IF i > Len(path) THEN 0
    ELSE (IF path[i] = "Right" THEN 1 ELSE 0) + CountRight(path, i + 1)

\* the generator the execution of SpecWalk is using
PrngOf(w) ==
    IF w.pc = "pegs" THEN w.peg.prng
    ELSE IF w.pc = "rows" THEN w.run.prng
    ELSE w.engine.prng

\* ------------------------------------------------------------------------
\* C1.  Determinism: two engine objects built from the same combined-seed
\* string have the same pegMapHash, and when each has made exactly one call
\* of run, with the same dropColumn, the two calls returned the same
\* pegMapHash, path and binIndex.  One of the seeds is malformed.
\* ------------------------------------------------------------------------
C1_Determinism ==
    \A a, b \in EngineIds :
        (engines[a].made /\ engines[b].made /\ engines[a].seed = engines[b].seed)
        => /\ engines[a].engine.pegMapHash = engines[b].engine.pegMapHash
           /\ (engines[a].runs = 1 /\ engines[b].runs = 1
               /\ engines[a].dropColumn = engines[b].dropColumn)
              => engines[a].last.result = engines[b].last.result

C1_Witness ==
    /\ engines[1].made /\ engines[2].made
    /\ engines[1].seed = engines[2].seed
    /\ BufferFromHex(engines[1].seed) = <<>>
    /\ engines[1].runs = 1 /\ engines[2].runs = 1
    /\ engines[1].dropColumn = 12 /\ engines[2].dropColumn = 12
    /\ Len(engines[2].last.result.path) = ROWS

\* ------------------------------------------------------------------------
\* C2.  Verifier reproduction: whenever GET /verify has answered a query
\* made of the serverSeed, clientSeed, nonce and dropColumn stored in the
\* row of a started round, its answer carries the pegMapHash, path (as
\* JSON) and binIndex stored in that row by the start handler, and the
\* commitHex that the commit response of the round published.
\* ------------------------------------------------------------------------
C2_VerifierReproduces ==
    \A v \in resps :
        (v.kind = "verify" /\ v.status = 200)
        => \A id \in 1..Len(rounds) :
              (rounds[id].status # "CREATED" /\ v.query = QueryOf(rounds[id]))
              => /\ Some(v.body.pegMapHash) = rounds[id].pegMapHash
                 /\ Some(StringifyPath(v.body.path)) = rounds[id].pathJson
                 /\ Some(v.body.binIndex) = rounds[id].binIndex
                 /\ \A c \in resps :
                       (c.kind = "commit" /\ c.id = id)
                       => c.body.commitHex = v.body.commitHex

\* a round started twice by overlapping requests, the row holding what the
\* later update wrote, and verified with the values of the row
C2_Witness ==
    \E v \in resps :
        /\ v.kind = "verify" /\ v.status = 200
        /\ \E id \in 1..Len(rounds) :
              /\ rounds[id].status = "STARTED"
              /\ v.query = QueryOf(rounds[id])
              /\ Some(v.body.binIndex) = rounds[id].binIndex
              /\ \E st \in resps :
                    /\ st.kind = "start" /\ st.status = 200 /\ st.id = id
                    /\ Some(st.body.pegMapHash) # rounds[id].pegMapHash

\* ------------------------------------------------------------------------
\* C3.  Retrying with identical input yields an identical result: a later
\* call run(dropColumn) on an engine returns the path and binIndex that the
\* first call on that engine returned for the same dropColumn.
\* ------------------------------------------------------------------------
C3_LaterCallRepeatsFirst ==
    (walk.pc = "ready" /\ walk.last.called /\ walk.last.call > 1
     /\ walk.last.dropColumn = walk.first.dropColumn)
    => /\ walk.last.result.path = walk.first.result.path
       /\ walk.last.result.binIndex = walk.first.result.binIndex

\* the generator of a fresh engine for seed, advanced by n further draws
RECURSIVE Skip(_, _)
Skip(prng, n) == IF n = 0 THEN prng ELSE Skip(NextFloat(prng).prng, n - 1)

FreshPegLoop(seed) == PegLoop(PegLoopInit(NewGenerator(NumOfWord(SeedInt(seed)))))

\* what call number k of run(dropColumn) returns on an engine built from
\* seed: the walk over draws 78 + 12 (k - 1) onward of the seed's stream
WalkFrom(pegs, k, dropColumn) ==
    RowLoop([prng |-> Skip(pegs.prng, ROWS * (k - 1)),
             path |-> <<>>, pos |-> 0, r |-> 0],
            pegs.pegMap, dropColumn)

\* C3, what run does instead: the calls on one engine share the generator
\* captured by the closure, each continuing where the one before stopped, so
\* call number k returns the walk over draws 78 + 12 (k - 1) onward.
C3_ResultFixedBySeedColumnAndCallNumber ==
    (walk.pc = "ready" /\ walk.last.called)
    => \E st \in {WalkFrom(FreshPegLoop(walk.seed), walk.last.call,
                           walk.last.dropColumn)} :
           /\ walk.last.result.path = st.path
           /\ walk.last.result.binIndex = st.pos

\* ------------------------------------------------------------------------
\* C4.  Commit-reveal binding: the serverSeed and nonce in a reveal response
\* give, through generateCommit, the commitHex of the commit response for
\* the same round; and no step of any handler changes the serverSeed, nonce
\* or commitHex of a row once the row exists.
\* ------------------------------------------------------------------------
C4_RevealMatchesCommit ==
    \A r \in resps :
        (r.kind = "reveal" /\ r.status = 200)
        => \A c \in resps :
              (c.kind = "commit" /\ c.id = r.id)
              => /\ r.body.serverSeed # Null
                 /\ generateCommit(r.body.serverSeed[1], r.body.nonce)
                      = c.body.commitHex

C4_SecretsKept ==
    \A id \in 1..Len(rounds) :
        /\ Len(rounds') >= id
        /\ rounds'[id].serverSeed = rounds[id].serverSeed
        /\ rounds'[id].nonce = rounds[id].nonce
        /\ rounds'[id].commitHex = rounds[id].commitHex

C4_CommitRevealBinding ==
    []C4_RevealMatchesCommit /\ [][C4_SecretsKept]_vars

\* the second of two rounds with different secrets revealed, its reveal
\* response carrying the serverSeed and nonce of its row
C4_Witness ==
    /\ Len(rounds) = 2
    /\ rounds[1].serverSeed # rounds[2].serverSeed
    /\ rounds[2].status = "REVEALED"
    /\ \E r \in resps :
          /\ r.kind = "reveal" /\ r.status = 200 /\ r.id = 2
          /\ r.body.serverSeed = rounds[2].serverSeed
          /\ r.body.nonce = rounds[2].nonce

\* ------------------------------------------------------------------------
\* C5.  Every result returned by run, by a first call or a later one, for
\* every seed and every dropColumn in 0..12, has an integer binIndex with
\* 0 <= binIndex <= 12.
\* ------------------------------------------------------------------------
C5_BinIndexRange ==
    /\ walk.pc \in {"ready", "rows"} /\ walk.first.called
       => walk.first.result.binIndex \in 0..ROWS
    /\ walk.pc \in {"ready", "rows"} /\ walk.last.called
       => walk.last.result.binIndex \in 0..ROWS

C5_Witness ==
    /\ walk.pc = "ready" /\ walk.last.called /\ walk.last.call = 2
    /\ walk.last.dropColumn = 12
    /\ walk.last.result.binIndex > 6

\* ------------------------------------------------------------------------
\* C6.  Every path returned by run has exactly ROWS = 12 entries, each
\* 'Left' or 'Right'; while the row loop runs, the path holds one entry per
\* row done, and the rows of the call were taken in the order 0, 1, 2, ...
\* ------------------------------------------------------------------------
C6_PathShape ==
    /\ walk.pc = "rows"
       => /\ Len(walk.run.path) = walk.run.r
          /\ \A i \in 1..Len(walk.run.path) : walk.run.path[i] \in Results
          /\ \A i \in 1..walk.run.r :
                LET entry == walk.log[Len(walk.log) - walk.run.r + i]
                IN  entry.kind = "row" /\ entry.r = i - 1
                    /\ entry.call = walk.runs + 1
    /\ walk.pc \in {"ready", "rows"} /\ walk.last.called
       => /\ Len(walk.last.result.path) = ROWS
          /\ \A i \in 1..ROWS : walk.last.result.path[i] \in Results
    /\ walk.pc \in {"ready", "rows"} /\ walk.first.called
       => Len(walk.first.result.path) = ROWS

C6_Witness ==
    /\ walk.pc = "ready" /\ walk.last.called /\ walk.last.call = 2
    /\ Len(walk.last.result.path) = ROWS
    /\ walk.last.result.path[1] = "Right" /\ walk.last.result.path[ROWS] = "Left"

\* ------------------------------------------------------------------------
\* C7.  During a run pos equals the number of 'Right' entries pushed so
\* far; a row leaves pos as it is or adds 1 to it, so pos never decreases;
\* the binIndex returned equals the number of 'Right' entries in the path
\* returned.
\* ------------------------------------------------------------------------
C7_PosCountsRight ==
    /\ walk.pc = "rows" => walk.run.pos = CountRight(walk.run.path, 1)
    /\ walk.pc \in {"ready", "rows"} /\ walk.last.called
       => walk.last.result.binIndex = CountRight(walk.last.result.path, 1)

C7_RowAddsAtMostOne ==
    (walk.pc = "rows" /\ walk'.pc = "rows")
    => /\ walk'.run.pos \in {walk.run.pos, walk.run.pos + 1}
       /\ walk'.run.pos = walk.run.pos + 1
          <=> walk'.run.path[Len(walk'.run.path)] = "Right"

C7_MonotonicMoveCount == []C7_PosCountsRight /\ [][C7_RowAddsAtMostOne]_vars

C7_Witness ==
    /\ walk.pc = "rows" /\ walk.run.r = 7 /\ walk.run.pos = 3
    /\ walk.run.path[7] = "Right"

\* ------------------------------------------------------------------------
\* C8.  Draws are numbered from 0 after seeding.  Peg (r, c) is built from
\* draw r(r+1)/2 + c; all 78 peg draws come before any row draw; row r of
\* the first run uses draw 78 + r; and from the seeding on, every step leaves
\* the generator as it is or advances it by one nextFloat: it is never
\* seeded again or set back.
\* ------------------------------------------------------------------------
PegCount == (ROWS * (ROWS + 1)) \div 2

C8_LogInOrder ==
    walk.pc # "idle"
    => \A i \in 1..Len(walk.log) :
          LET entry == walk.log[i]
          IN  /\ entry.draw = i - 1
              /\ entry.kind = "peg"
                 => /\ entry.draw = (entry.r * (entry.r + 1)) \div 2 + entry.c
                    /\ i <= PegCount
              /\ entry.kind = "row" => i > PegCount
              /\ (entry.kind = "row" /\ entry.call = 1)
                 => entry.draw = PegCount + entry.r

C8_StreamContinues ==
    walk.pc # "idle"
    => \/ PrngOf(walk') = PrngOf(walk)
       \/ PrngOf(walk') = NextFloat(PrngOf(walk)).prng

C8_DrawOrdering == []C8_LogInOrder /\ [][C8_StreamContinues]_vars

C8_Witness ==
    /\ walk.pc = "rows" /\ walk.runs = 0 /\ walk.run.r = ROWS
    /\ Len(walk.log) = PegCount + ROWS
    /\ walk.log[PegCount].kind = "peg" /\ walk.log[PegCount].c = ROWS - 1
    /\ walk.log[PegCount + 1].kind = "row"

\* ------------------------------------------------------------------------
\* C9.  nextFloat replaces the state x by the value of x ^= x << 13;
\* x ^= x >>> 17; x ^= x << 5 taken in that order on 32-bit unsigned
\* values, and returns the new state divided by 2^32.  The right-hand side
\* is worked out bit by bit: bit i of a word, shifts as moves of bit
\* positions with zero fill, exclusive or as sum modulo 2.
\* ------------------------------------------------------------------------
Bits == 0..31

BitsOf(w) ==
    [i \in Bits |-> IF i < 16 THEN (Lo(w) \div 2^i) % 2
                    ELSE (Hi(w) \div 2^(i - 16)) % 2]

RECURSIVE BitSum(_, _, _)
BitSum(f, i, j) == IF i > j THEN 0 ELSE f[i] + 2 * BitSum(f, i + 1, j)

WordOf(f) == Word(BitSum(f, 16, 31), BitSum(f, 0, 15))

BitsShl(f, n) == [i \in Bits |-> IF i >= n THEN f[i - n] ELSE 0]
BitsShr(f, n) == [i \in Bits |-> IF i + n <= 31 THEN f[i + n] ELSE 0]
BitsXor(f, g) == [i \in Bits |-> (f[i] + g[i]) % 2]

Xorshift32Reference(w) ==
    LET x0 == BitsOf(w)
        x1 == BitsXor(x0, BitsShl(x0, 13))
        x2 == BitsXor(x1, BitsShr(x1, 17))
        x3 == BitsXor(x2, BitsShl(x2, 5))
    IN  WordOf(x3)

C9_XorshiftAdvance ==
    (gen.made /\ gen.prng.draws > 0)
    => /\ gen.prng.state = Xorshift32Reference(gen.before)
       /\ gen.value = gen.prng.state

C9_Witness ==
    /\ gen.made /\ gen.prng.draws = 3
    /\ Hi(gen.before) >= 2^15
    /\ gen.prng.state # gen.before

\* ------------------------------------------------------------------------
\* C10.  The generator never sits at zero: built from a seed that is 0
\* modulo 2^32 it starts with state 1, and for every seed, after any number
\* of nextFloat calls, the state is an integer in 1..2^32-1.
\* ------------------------------------------------------------------------
C10_StateNeverZero ==
    gen.made
    => /\ IsWord(gen.prng.state)
       /\ gen.prng.state # ZeroWord
       /\ (gen.seed.w = ZeroWord /\ gen.prng.draws = 0)
          => gen.prng.state = OneWord

C10_Witness ==
    /\ gen.made /\ gen.seed.w = ZeroWord /\ gen.seed.ext > 0
    /\ gen.prng.draws = MaxDraws
    /\ gen.prng.state # ZeroWord

\* ------------------------------------------------------------------------
\* C11.  Every value returned by nextFloat, for every seed and at every
\* position of the stream, is at least 0 and less than 1.  The value is
\* n / 2^32 with n = Hi * 2^16 + Lo and 0 <= Lo < 2^16, so 0 <= value < 1
\* says 0 <= Hi < 2^16.
\* ------------------------------------------------------------------------
C11_ValueInUnitInterval ==
    (gen.made /\ gen.prng.draws > 0)
    => /\ Lo(gen.value) >= 0 /\ Lo(gen.value) < W16
       /\ Hi(gen.value) >= 0
       /\ Hi(gen.value) < W16

\* a value of one half or more, the last of the stream of a negative seed
C11_Witness ==
    /\ gen.made /\ gen.seed.neg
    /\ gen.prng.draws = MaxDraws
    /\ Hi(gen.value) >= 2^15

\* ------------------------------------------------------------------------
\* Reading a seed string by hand
\* ------------------------------------------------------------------------
\* every character is a hexadecimal digit
IsHex(str) == \A i \in 1..Len(str) : HexVal(str[i]) >= 0

\* digits i..i+3 as a 16-bit value, first digit most significant
HexHalf(str, i) ==
    HexVal(str[i]) * 4096 + HexVal(str[i + 1]) * 256
    + HexVal(str[i + 2]) * 16 + HexVal(str[i + 3])

\* the first eight digits as a 32-bit value, first byte most significant
HexWord(str) == Word(HexHalf(str, 1), HexHalf(str, 5))

\* ------------------------------------------------------------------------
\* C12.  Seeding from valid hex: when the combined seed consists of
\* hexadecimal digits and has at least 8 of them, createGameEngine does not
\* re-hash it, seedInt is the 32-bit value of its first 8 digits (first byte
\* most significant), and the generator is new Xorshift32(seedInt).
\* ------------------------------------------------------------------------
C12_SeededFromFirstFourBytes ==
    (walk.pc \notin {"idle", "threw"} /\ IsHex(walk.seed) /\ Len(walk.seed) >= 8)
    => /\ ~walk.rehashed
       /\ walk.seedInt = HexWord(walk.seed)
       /\ walk.pc = "pegs" /\ walk.peg.prng.draws = 0
          => walk.peg.prng = NewGenerator(NumOfWord(HexWord(walk.seed)))

\* nine upper-case digits, whose bytes are not a palindrome
C12_Witness ==
    /\ walk.pc = "pegs" /\ walk.peg.prng.draws = 0
    /\ Len(walk.seed) = 9 /\ IsHex(walk.seed)
    /\ walk.seedInt = Word(57821, 57207)
    /\ walk.peg.prng.state = Word(57821, 57207)

\* ------------------------------------------------------------------------
\* C13.  Re-hash fallback: for every combined seed that holds a character
\* which is not a hexadecimal digit, or that decodes to fewer than 4 bytes,
\* createGameEngine seeds the generator from the first 4 bytes of
\* sha256(input), not from bytes decoded out of the input.
\* ------------------------------------------------------------------------
C13_MalformedSeedRehashed ==
    (walk.pc \notin {"idle", "threw"}
     /\ (~IsHex(walk.seed) \/ Len(walk.seed) < 8))
    => /\ walk.rehashed
       /\ walk.seedInt = HexWord(sha256(walk.seed))

\* ------------------------------------------------------------------------
\* C14.  Malformed seeds are never surfaced as errors: for every string
\* (empty, odd-length, non-hex, shorter than 4 bytes) createGameEngine
\* raises nothing and returns an engine with a peg map of 12 rows and a
\* pegMapHash of 64 hexadecimal digits.
\* ------------------------------------------------------------------------
C14_NoErrorOnMalformedSeed ==
    /\ walk.pc # "threw"
    /\ walk.pc \in {"ready", "rows"}
       => /\ Len(walk.engine.pegMap) = ROWS
          /\ Len(walk.engine.pegMapHash) = 64
          /\ IsHex(walk.engine.pegMapHash)

\* the engine for the empty string
C14_Witness ==
    /\ walk.pc = "ready" /\ walk.seed = <<>>
    /\ walk.rehashed
    /\ Len(walk.engine.pegMap) = ROWS

\* ------------------------------------------------------------------------
\* C15.  Peg field shape: the peg map of every engine has exactly ROWS = 12
\* rows and row r has exactly r + 1 pegs; while the loops run, the rows
\* pushed so far have that shape and the row being filled has c pegs.
\* ------------------------------------------------------------------------
C15_PegFieldShape ==
    /\ walk.pc = "pegs"
       => /\ Len(walk.peg.pegMap) = walk.peg.r
          /\ \A r \in 0..(walk.peg.r - 1) : Len(walk.peg.pegMap[r + 1]) = r + 1
          /\ Len(walk.peg.rowPegs) = walk.peg.c
    /\ walk.pc \in {"ready", "rows"}
       => /\ Len(walk.engine.pegMap) = ROWS
          /\ \A r \in 0..(ROWS - 1) : Len(walk.engine.pegMap[r + 1]) = r + 1

C15_Witness ==
    /\ walk.pc = "ready"
    /\ Len(walk.engine.pegMap) = ROWS
    /\ Len(walk.engine.pegMap[1]) = 1
    /\ Len(walk.engine.pegMap[ROWS]) = ROWS

\* ------------------------------------------------------------------------
\* C16.  Bias range: every stored leftBias lies in [0.4, 0.6], and the peg
\* pushed in a pass of the inner loop holds 0.5 + (d - 0.5) * 0.2 rounded,
\* d being the value drawn in that pass: the stored value m millionths is
\* within half a millionth of 400000 + 200000 * state / 2^32, that is
\* |(m - 400000) * 2^26 - 3125 * state| <= 2^25.
\* ------------------------------------------------------------------------
\* the peg pushed last
LastPeg(st) ==
    IF st.c = 0 THEN st.pegMap[Len(st.pegMap)][Len(st.pegMap[Len(st.pegMap)])]
    ELSE st.rowPegs[Len(st.rowPegs)]

\* m millionths is within half a millionth of the exact bias for state.
\* With a == (m - 400000) * 2^10 - 3125 * Hi the difference is
\* a * 2^16 - 3125 * Lo; a lies near 0 when the difference is small, which
\* keeps the products within 32 bits.
NearestBias(m, state) ==
    LET a == (m - 400000) * 2^10 - 3125 * Hi(state)
    IN  /\ a >= -600 /\ a <= 4000
        /\ a * W16 - 3125 * Lo(state) <= 2^25
        /\ a * W16 - 3125 * Lo(state) >= 0 - 2^25

C16_BiasInRange ==
    /\ walk.pc = "pegs"
       => /\ \A r \in 1..Len(walk.peg.pegMap) :
                \A c \in 1..Len(walk.peg.pegMap[r]) :
                    /\ walk.peg.pegMap[r][c].leftBias >= 400000
                    /\ walk.peg.pegMap[r][c].leftBias <= 600000
          /\ \A c \in 1..Len(walk.peg.rowPegs) :
                /\ walk.peg.rowPegs[c].leftBias >= 400000
                /\ walk.peg.rowPegs[c].leftBias <= 600000
    /\ walk.pc \in {"ready", "rows"}
       => \A r \in 1..Len(walk.engine.pegMap) :
             \A c \in 1..Len(walk.engine.pegMap[r]) :
                 /\ walk.engine.pegMap[r][c].leftBias >= 400000
                 /\ walk.engine.pegMap[r][c].leftBias <= 600000

C16_PegFromItsDraw ==
    (walk.pc = "pegs" /\ walk'.pc = "pegs"
     /\ walk'.peg.prng.draws = walk.peg.prng.draws + 1)
    => /\ walk'.peg.prng.state = NextState(walk.peg.prng.state)
       /\ NearestBias(LastPeg(walk'.peg).leftBias, walk'.peg.prng.state)

C16_BiasRange == []C16_BiasInRange /\ [][C16_PegFromItsDraw]_vars

\* a finished peg map with a bias below 0.41 and one above 0.59
C16_Witness ==
    /\ walk.pc = "ready"
    /\ \E r \in 1..ROWS : \E c \in 1..r :
          walk.engine.pegMap[r][c].leftBias < 410000
    /\ \E r \in 1..ROWS : \E c \in 1..r :
          walk.engine.pegMap[r][c].leftBias > 590000

\* ------------------------------------------------------------------------
\* C18.  Drop-column adjustment: in every row of a run, for every number
\* dropColumn, inside 0..12 or not, adj = (dropColumn - 6) * 0.01 and the
\* adjusted bias is the leftBias of peg min(pos, r) of row r plus adj,
\* brought into [0, 1]; adj is the same in all rows of a call; for
\* dropColumn = 6 the adjusted bias is the stored leftBias.  Biases and adj
\* are in millionths.
\* ------------------------------------------------------------------------
C18_RowAdjustment ==
    (walk.pc = "rows" /\ walk'.pc = "rows" /\ walk.dropColumn # NaN)
    => LET pegIndex == IF walk.run.pos < walk.run.r THEN walk.run.pos
                       ELSE walk.run.r
           leftBias == walk.engine.pegMap[walk.run.r + 1][pegIndex + 1].leftBias
           sum == leftBias + (walk.dropColumn - 6) * 10000
       IN  /\ walk'.row.r = walk.run.r
           /\ walk'.row.pegIndex = pegIndex
           /\ walk'.row.adj = (walk.dropColumn - 6) * 10000
           /\ walk'.row.biasPrime =
                 IF sum < 0 THEN 0 ELSE IF sum > 1000000 THEN 1000000 ELSE sum
           /\ walk.dropColumn = 6 => walk'.row.biasPrime = leftBias
           /\ walk.run.r > 0 => walk'.row.adj = walk.row.adj

C18_DropColumnAdjustment == [][C18_RowAdjustment]_vars

\* a run with dropColumn -100 at its end: the sum was brought up to 0 in
\* its last row, whose peg was the last of the row
C18_Witness ==
    /\ walk.pc = "rows" /\ walk.run.r = ROWS /\ walk.dropColumn = -100
    /\ walk.runs = 1
    /\ walk.row.biasPrime = 0
    /\ walk.row.adj = -1060000
    /\ walk.row.pegIndex = ROWS - 1

\* ------------------------------------------------------------------------
\* C20.  Out-of-range dropColumn fails fast: a call of run with a
\* dropColumn outside 0..12 (-5, 13, 100, a non-number) raises an error and
\* returns no result.
\* ------------------------------------------------------------------------
C20_OutOfRangeColumnRaises ==
    ~(/\ walk.pc = "ready"
      /\ walk.last.called
      /\ walk.last.dropColumn \notin DropColumns)

\* ------------------------------------------------------------------------
\* C17.  Bias rounding.  The stored bias m (millionths) and the exact raw
\* bias 400000 + 3125 * state / 2^26 differ by
\* (m - 400000) * 2^26 - 3125 * state in units of 2^-26 millionth: 2^25
\* when a raw bias halfway between two millionths was rounded upward, away
\* from zero, and -2^25 when it was rounded downward.
\* ------------------------------------------------------------------------
RoundedDownAtTie(m, state) ==
    LET a == (m - 400000) * 2^10 - 3125 * Hi(state)
    IN  a >= -600 /\ a <= 4000 /\ a * W16 - 3125 * Lo(state) = 0 - 2^25

StoredBias(built) == built.engine.pegMap[1][1].leftBias

\* the parts of the claim that are not about ties: the stored bias is a
\* whole number of millionths, the nearest to the raw bias; two raw biases
\* stored as the same value give the same pegMapHash; the row decision
\* works with the stored value
C17_RoundedValueUsed ==
    /\ \A built \in walk.built :
          /\ StoredBias(built) \in 400000..600000
          /\ NearestBias(StoredBias(built), built.rnd)
    /\ \A b1, b2 \in walk.built :
          StoredBias(b1) = StoredBias(b2)
          => b1.engine.pegMapHash = b2.engine.pegMapHash
    /\ (walk.row.called /\ walk.row.dropColumn = 6)
       => /\ \E built \in walk.built : walk.row.peg.leftBias = StoredBias(built)
          /\ walk.row.locals.biasPrime = walk.row.peg.leftBias

\* C17, as claimed: every stored leftBias is the raw bias rounded to 6
\* decimal digits with ties rounded away from zero, the rounded value is
\* what the hash and the row decisions use, and raw biases that round to
\* the same value give the same stored bias and the same pegMapHash.
C17_TiesAwayFromZero ==
    walk.pc = "unit"
    => /\ C17_RoundedValueUsed
       /\ \A built \in walk.built :
             ~RoundedDownAtTie(StoredBias(built), built.rnd)

\* C17, amended: every stored leftBias is the multiple of 10^-6 nearest to
\* the raw bias; a raw bias exactly halfway between two multiples is stored
\* as the upper one, away from zero, except for the draws 0x86000000 / 2^32
\* and 0x9a000000 / 2^32, for which the lower one is stored (0.504687 and
\* 0.520312); the rounded value is what the hash and the row decisions use,
\* and raw biases stored as the same value give the same pegMapHash.
C17_BiasRounding ==
    walk.pc = "unit"
    => /\ C17_RoundedValueUsed
       /\ \A built \in walk.built :
             RoundedDownAtTie(StoredBias(built), built.rnd)
             <=> built.rnd \in {Word(34304, 0), Word(39424, 0)}

\* the draws 0x86000000 and 0x85ffffff, stored as the same 0.504687 and
\* hashed to the same digest; the first lies halfway
C17_Witness ==
    /\ walk.pc = "unit"
    /\ \E b1, b2 \in walk.built :
          /\ b1.rnd = Word(34304, 0) /\ b2.rnd = Word(34303, 65535)
          /\ StoredBias(b1) = 504687 /\ StoredBias(b2) = 504687
          /\ b1.engine.pegMapHash = b2.engine.pegMapHash
          /\ RoundedDownAtTie(StoredBias(b1), b1.rnd)

\* ------------------------------------------------------------------------
\* C19.  Row decision rule: a row draws exactly one value rnd; when rnd is
\* less than the adjusted bias it appends 'Left' and leaves pos, otherwise,
\* rnd equal to the adjusted bias included, it appends 'Right' and adds 1
\* to pos; the row counter goes up by one, nothing is drawn again.
\*
\* rnd = state / 2^32 and biasPrime = n / 10^6 compare as state * 15625 and
\* n * 2^26.  biasPrime is the double peg.leftBias + adj; where that double
\* lies above the exact sum (SumRoundedUp) and rnd is the exact sum, rnd is
\* less than biasPrime.
\* ------------------------------------------------------------------------
C19_RowDecisionRule ==
    (walk.pc = "unit" /\ walk.row.called)
    => LET before == walk.row.before
           after == walk.row.after
           rnd == after.prng.state
           n == walk.row.locals.biasPrime
           scaled == 15625 * Hi(rnd) + ((15625 * Lo(rnd)) \div W16)
           below == n # NaN /\ scaled < n * 2^10
           equal == /\ n # NaN /\ scaled = n * 2^10
                    /\ (15625 * Lo(rnd)) % W16 = 0
           sumAbove ==
               <<rnd, walk.row.peg.leftBias, walk.row.dropColumn>>
                   \in SumRoundedUp
           less == below \/ (equal /\ sumAbove)
       IN  /\ rnd = NextState(before.prng.state)
           /\ after.prng.draws = before.prng.draws + 1
           /\ after.r = before.r + 1
           /\ Len(after.path) = Len(before.path) + 1
           /\ \A i \in 1..Len(before.path) : after.path[i] = before.path[i]
           /\ less => /\ after.path[Len(after.path)] = "Left"
                      /\ after.pos = before.pos
           /\ ~less => /\ after.path[Len(after.path)] = "Right"
                       /\ after.pos = before.pos + 1
           /\ (equal /\ ~sumAbove) => after.path[Len(after.path)] = "Right"

\* rnd = 0.5 against the stored bias 0.5 with dropColumn 6: 'Right'
C19_Witness ==
    /\ walk.pc = "unit" /\ walk.row.called
    /\ walk.row.dropColumn = 6
    /\ walk.row.peg.leftBias = 500000
    /\ walk.row.locals.biasPrime = 500000
    /\ walk.row.after.prng.state = Word(32768, 0)
    /\ walk.row.after.path = <<"Right">>
    /\ walk.row.after.pos = 1

\* ------------------------------------------------------------------------
\* The repository's test vector
\* ------------------------------------------------------------------------
\* prngFirst5: for each of 0.1106166649, 0.7625129214, 0.0439292176,
\* 0.4578678815 and 0.3438999297, the least and the greatest integer n
\* with |n / 2^32 - value| < 10^-9
prngFirst5 ==
    << <<Word(7249, 24490), Word(7249, 24498)>>,
       <<Word(49972, 3064), Word(49972, 3072)>>,
       <<Word(2878, 61941), Word(2878, 61949)>>,
       <<Word(30006, 54357), Word(30006, 54365)>>,
       <<Word(22537, 54115), Word(22537, 54123)>> >>

\* x <= y for 32-bit words
WordLeq(x, y) == Hi(x) < Hi(y) \/ (Hi(x) = Hi(y) /\ Lo(x) <= Lo(y))

\* expectedPegs, in millionths
expectedPegs ==
    << <<422123>>, <<552503, 408786>>, <<491574, 468780, 436540>> >>

\* ------------------------------------------------------------------------
\* C25.  A Xorshift32 seeded with 0xe1dddf77 returns as its first five
\* draws values within 10^-9 of 0.1106166649, 0.7625129214, 0.0439292176,
\* 0.4578678815 and 0.3438999297, in that order.
\* ------------------------------------------------------------------------
C25_VectorDraws ==
    (/\ gen.made /\ gen.seed = NumOfWord(Word(57821, 57207))
     /\ gen.prng.draws \in 1..5)
    => /\ WordLeq(prngFirst5[gen.prng.draws][1], gen.value)
       /\ WordLeq(gen.value, prngFirst5[gen.prng.draws][2])

\* the fifth draw, 1477038951 / 2^32 = 0.34389992966...
C25_Witness ==
    /\ gen.made /\ gen.seed = NumOfWord(Word(57821, 57207))
    /\ gen.prng.draws = 5
    /\ gen.value = Word(22537, 54119)

\* ------------------------------------------------------------------------
\* C26.  The engine built from the combined seed e1dddf77...07e0 stores, as
\* leftBias, 0.422123 in row 0, 0.552503 and 0.408786 in row 1 and
\* 0.491574, 0.468780 and 0.436540 in row 2.
\* ------------------------------------------------------------------------
C26_VectorPegs ==
    (walk.pc \in {"ready", "rows"} /\ walk.seed = VectorSeed)
    => \A r \in 1..3 :
          /\ Len(walk.engine.pegMap[r]) = r
          /\ \A c \in 1..r :
                walk.engine.pegMap[r][c].leftBias = expectedPegs[r][c]

C26_Witness ==
    /\ walk.pc = "ready" /\ walk.seed = VectorSeed /\ walk.runs = 0
    /\ walk.seedInt = Word(57821, 57207)
    /\ walk.engine.pegMap[2] = <<[leftBias |-> 552503], [leftBias |-> 408786]>>
    /\ Len(walk.engine.pegMap) = ROWS

\* ------------------------------------------------------------------------
\* C27.  The first run(6) on a fresh engine built from the combined seed
\* e1dddf77...07e0 returns binIndex 6.
\* ------------------------------------------------------------------------
C27_VectorOutcome ==
    (/\ walk.pc \in {"ready", "rows"} /\ walk.seed = VectorSeed
     /\ walk.first.called /\ walk.first.dropColumn = 6)
    => walk.first.result.binIndex = 6

C27_Witness ==
    /\ walk.pc = "ready" /\ walk.seed = VectorSeed /\ walk.runs = 1
    /\ walk.first.called /\ walk.first.dropColumn = 6
    /\ walk.first.result.binIndex = 6
    /\ walk.first.result.path =
         <<"Left", "Left", "Left", "Right", "Left", "Right", "Left",
           "Right", "Left", "Right", "Right", "Right">>

\* ------------------------------------------------------------------------
\* C24.  Payout alignment: every started round stores as payoutMultiplier
\* the entry at its binIndex of the table 10, 5, 2, 1, 0.5, 0.2, 0.2, 0.2,
\* 0.5, 1, 2, 5, 10 (here in tenths); the index is in 0..12; the table
\* reads the same from both ends; the client's PAYTABLE is the same
\* sequence.
\* ------------------------------------------------------------------------
C24_PayoutAlignment ==
    LET table == <<100, 50, 20, 10, 5, 2, 2, 2, 5, 10, 20, 50, 100>>
    IN  /\ \A id \in 1..Len(rounds) :
              rounds[id].status # "CREATED"
              => /\ rounds[id].binIndex # Null
                 /\ rounds[id].binIndex[1] \in 0..12
                 /\ rounds[id].payoutMultiplier
                      = Some(table[rounds[id].binIndex[1] + 1])
        /\ \A resp \in resps :
              (resp.kind = "start" /\ resp.status = 200)
              => resp.body.payoutMultiplier = table[resp.body.binIndex + 1]
        /\ multipliers = table
        /\ \A i \in 0..12 : table[i + 1] = table[12 - i + 1]
        /\ PAYTABLE = table

\* two started rounds that landed in different bins
C24_Witness ==
    \E id1, id2 \in 1..Len(rounds) :
       /\ rounds[id1].status = "STARTED" /\ rounds[id2].status = "REVEALED"
       /\ rounds[id1].binIndex # rounds[id2].binIndex
       /\ rounds[id1].payoutMultiplier # rounds[id2].payoutMultiplier
       /\ rounds[id1].payoutMultiplier
            = Some(multipliers[rounds[id1].binIndex[1] + 1])

\* ------------------------------------------------------------------------
\* C23.  Commitment binding: with the nonce fixed, two different serverSeed
\* strings give different strings to hash, and with the serverSeed fixed,
\* two different nonce strings give different strings to hash; the
\* commitment is the digest of that string and is the same whatever the
\* clientSeed.
\* ------------------------------------------------------------------------
C23_CommitmentBinding ==
    walk.pc = "seeds"
    => /\ \A c \in walk.made : c.commitHex = sha256(c.preimage)
       /\ \A c1, c2 \in walk.made :
             /\ (c1.nonce = c2.nonce /\ c1.serverSeed # c2.serverSeed)
                => c1.preimage # c2.preimage
             /\ (c1.serverSeed = c2.serverSeed /\ c1.nonce # c2.nonce)
                => c1.preimage # c2.preimage
             /\ (c1.serverSeed = c2.serverSeed /\ c1.nonce = c2.nonce)
                => c1.commitHex = c2.commitHex

\* the nonces 'a' and ':a' under the serverSeed 'a:', and one pair under
\* two client seeds
C23_Witness ==
    /\ walk.pc = "seeds"
    /\ \E c1, c2 \in walk.made :
          /\ c1.serverSeed = <<"a", ":">> /\ c2.serverSeed = <<"a", ":">>
          /\ c1.nonce = <<"a">> /\ c2.nonce = <<":", "a">>
          /\ c1.preimage = <<"a", ":", ":", "a">>
          /\ c2.preimage = <<"a", ":", ":", ":", "a">>
          /\ c1.clientSeed # c2.clientSeed

\* ------------------------------------------------------------------------
\* C21.  Request validation guards the core: wherever a handler calls
\* engine.run -- POST /rounds/:id/start at line 99, in the step that takes
\* the suspended request up again, and GET /verify at line 218, in every
\* request answered with the computed result -- the dropColumn handed to
\* run is an integer in 0..12.
\* ------------------------------------------------------------------------
C21_RunArgumentValidated ==
    /\ \A req \in reqs \ reqs' :
          req.kind = "start"
          => /\ IsInteger(req.body.dropColumn)
             /\ (req.body.dropColumn \div Tenths) \in DropColumns
    /\ \A resp \in resps' \ resps :
          (resp.kind = "verify" /\ resp.status = 200)
          => Number(resp.query.dropColumn[1]) \in DropColumns

C21_ValidationGuardsCore == [][C21_RunArgumentValidated]_vars

\* ------------------------------------------------------------------------
\* C22.  Server seed secrecy until reveal: a response of the commit, start
\* or get handler that carries a serverSeed or a combinedSeed is sent only
\* while the stored status of its round is REVEALED; the reveal handler
\* goes on to its update, and so to its response, only for a round that it
\* read as STARTED or REVEALED.
\* ------------------------------------------------------------------------
CarriesSeed(body) ==
    \/ "serverSeed" \in DOMAIN body /\ body.serverSeed # Null
    \/ "combinedSeed" \in DOMAIN body /\ body.combinedSeed # Null

C22_SeedOnlyWhenRevealed ==
    /\ \A resp \in resps' \ resps :
          (resp.kind \in {"commit", "start", "get"} /\ CarriesSeed(resp.body))
          => rounds'[resp.id].status = "REVEALED"
    /\ \A req \in reqs' \ reqs :
          req.kind = "reveal"
          => rounds[req.id].status \in {"STARTED", "REVEALED"}
    /\ \A resp \in resps' \ resps :
          (resp.kind = "reveal" /\ CarriesSeed(resp.body))
          => \E req \in reqs \ reqs' : req.kind = "reveal" /\ req.id = resp.id

C22_SeedSecrecyUntilReveal == [][C22_SeedOnlyWhenRevealed]_vars

\* ------------------------------------------------------------------------
\* C30.  A round is played at most once: at most one start request on a
\* round succeeds; once a start has written clientSeed, dropColumn,
\* binIndex, path and payoutMultiplier, these stored values never change;
\* every other start on the round is answered with 'Round already started
\* or finished'.
\* ------------------------------------------------------------------------
Played(round) ==
    <<round.clientSeed, round.dropColumn, round.binIndex, round.pathJson,
      round.payoutMultiplier>>

C30_StoredPlayKept ==
    /\ \A id \in 1..Len(rounds) :
          rounds[id].status # "CREATED"
          => Played(rounds'[id]) = Played(rounds[id])
    /\ \A resp \in resps' \ resps :
          (/\ resp.kind = "start" /\ resp.id \in 1..Len(rounds)
           /\ rounds[resp.id].status # "CREATED")
          => /\ resp.status = 400
             /\ resp.body = ErrorBody("Round already started or finished")

C30_RoundPlayedAtMostOnce == [][C30_StoredPlayKept]_vars

\* ------------------------------------------------------------------------
\* C29.  Keyboard drop: whenever the game holds a committed round (status
\* CREATED) and no drop is in progress, a press of Space issues a start
\* request for that round with the dropColumn, the bet amount and the
\* client seed now selected, and leaves the game as a click on Drop Ball
\* would.
\* ------------------------------------------------------------------------
C29_SpaceStartsCurrentRound ==
    (/\ ui.pc = "game" /\ ui.round # Null /\ ~ui.isDropping
     /\ ui.round[1].status = "CREATED"
     /\ KeySpace)
    => /\ ui'.drop =
            Some([roundId |-> ui.round[1].id,
                  clientSeed |-> IF ui.clientSeed = <<>> THEN AutoSeed
                                 ELSE ui.clientSeed,
                  betCents |-> ui.betAmount,
                  dropColumn |-> ui.dropColumn])
       /\ ui'.isDropping
       /\ ui' = HandleDrop(ui, Snapshot(ui))

C29_KeyboardDrop == [][C29_SpaceStartsCurrentRound]_vars

\* ------------------------------------------------------------------------
\* C28.  Verifier page, load by ID: when Load Round succeeds for a round
\* with status REVEALED, the form's serverSeed, clientSeed, nonce and
\* dropColumn become that round's stored values, for every stored
\* dropColumn in 0..12; and the verification that the page then starts by
\* itself sends a request with the four values the form holds.
\* ------------------------------------------------------------------------
C28_FormLoaded ==
    \A ld \in ui'.timers \ ui.timers :
       LET round == VerifierRounds[ld.roundId]
       IN  /\ ui'.serverSeed = round.serverSeed[1]
           /\ ui'.clientSeed = round.clientSeed[1]
           /\ ui'.nonce = round.nonce
           /\ ui'.dropColumn = round.dropColumn[1]

C28_LoadedFormVerified ==
    \A ld \in ui.timers \ ui'.timers :
       /\ FormOf(ui) \in ui'.verifies
       /\ ui'.loading

C28_LoadThenVerify ==
    (ui.pc = "verifier" /\ ui'.pc = "verifier")
    => (C28_FormLoaded /\ C28_LoadedFormVerified)

C28_VerifierLoadById == [][C28_LoadThenVerify]_vars

\* ------------------------------------------------------------------------
\* C31.  Round status is monotonic: in every step the stored status of a
\* round stays where it is or moves forward along CREATED, STARTED,
\* REVEALED, and the outcome stored in a round whose status is REVEALED
\* does not change.
\* ------------------------------------------------------------------------
StatusRank(status) ==
    IF status = "CREATED" THEN 0 ELSE IF status = "STARTED" THEN 1 ELSE 2

C31_StatusMovesForward ==
    \A id \in 1..Len(rounds) :
       /\ StatusRank(rounds'[id].status) >= StatusRank(rounds[id].status)
       /\ rounds[id].status = "REVEALED"
          => /\ rounds'[id].binIndex = rounds[id].binIndex
             /\ rounds'[id].combinedSeed = rounds[id].combinedSeed

C31_StatusMonotonic == [][C31_StatusMovesForward]_vars

\* ------------------------------------------------------------------------
\* C32.  The peg field is immutable after construction: after any number
\* of calls of run, an engine's pegMap and pegMapHash are those that
\* createGameEngine built from its seed (the hash being that of the
\* serialized peg map of the construction), and the PathResult of the
\* latest call carries the engine's pegMapHash.
\* ------------------------------------------------------------------------
C32_PegFieldImmutable ==
    \A e \in EngineIds :
       engines[e].made
       => LET engine == engines[e].engine
              built == createGameEngine(engines[e].seed)
          IN  /\ engine.pegMap = built.pegMap
              /\ engine.pegMapHash = built.pegMapHash
              /\ engines[e].last.called
                 => engines[e].last.result.pegMapHash = engine.pegMapHash

C32_Witness ==
    \E e \in EngineIds :
       /\ engines[e].made
       /\ engines[e].runs >= 2
       /\ engines[e].last.result.pegMapHash
             = sha256Pieces(StringifyPegMap(engines[e].engine.pegMap))

\* ------------------------------------------------------------------------
\* C33.  Each call of run advances the engine's generator by exactly ROWS
\* draws, whatever its argument: row r of the k-th call uses draw number
\* 78 + 12(k-1) + r, and after construction and k calls the generator has
\* made exactly 78 + 12k draws.
\* ------------------------------------------------------------------------
C33_RunDrawsTwelve ==
    walk.pc \in {"pegs", "ready", "rows"}
    => /\ \A i \in 1..Len(walk.log) :
             walk.log[i].kind = "row"
             => /\ walk.log[i].draw
                      = PegCount + ROWS * (walk.log[i].call - 1) + walk.log[i].r
                /\ walk.log[i].draw = i - 1
       /\ walk.pc = "ready"
          => /\ walk.engine.prng.draws = PegCount + ROWS * walk.runs
             /\ Len(walk.log) = PegCount + ROWS * walk.runs

C33_Witness ==
    /\ walk.pc = "ready" /\ walk.runs = MaxRuns
    /\ walk.dropColumn \notin DropColumns
    /\ walk.first.dropColumn \in DropColumns
    /\ walk.log[Len(walk.log)].draw = PegCount + ROWS * MaxRuns - 1

\* ------------------------------------------------------------------------
\* C34.  Peg lookup is always in bounds: at the start of row r of any run,
\* whatever the seed and the argument of run, pos <= r, so that
\* Math.min(pos, r) is pos and pegMap[r][pegIndex] is a peg of the map; the
\* pegIndex a pass through the loop body has used is the pos it started
\* with.
\* ------------------------------------------------------------------------
C34_PegLookupInBounds ==
    walk.pc = "rows"
    => /\ walk.run.pos <= walk.run.r
       /\ ~RunDone(walk.run)
          => /\ Min(walk.run.pos, walk.run.r) = walk.run.pos
             /\ walk.run.r + 1 \in DOMAIN walk.engine.pegMap
             /\ walk.run.pos + 1 \in DOMAIN walk.engine.pegMap[walk.run.r + 1]
       /\ walk.row # NoRow
          => /\ walk.row.pegIndex <= walk.row.r
             /\ walk.row.pegIndex + 1
                   \in DOMAIN walk.engine.pegMap[walk.row.r + 1]

C34_Witness ==
    /\ walk.pc = "rows"
    /\ walk.dropColumn \notin DropColumns
    /\ walk.run.r = ROWS - 1 /\ walk.run.pos = ROWS - 1
    /\ walk.row.pegIndex = ROWS - 2

\* ------------------------------------------------------------------------
\* C35.  The clamp never acts on valid input: in a row decided with a
\* dropColumn in 0..12, leftBias + adj lies in [0.34, 0.66], the adjusted
\* bias used is leftBias + adj itself, and it is neither 0 nor 1, so that
\* neither direction is forced.  In millionths.
\* ------------------------------------------------------------------------
C35_ClampIdleOnValidInput ==
    (walk.pc = "unit" /\ walk.row.called
     /\ walk.row.dropColumn \in DropColumns)
    => LET sum == walk.row.peg.leftBias + Adj(walk.row.dropColumn)
       IN  /\ sum >= 340000 /\ sum <= 660000
           /\ walk.row.locals.adj = Adj(walk.row.dropColumn)
           /\ walk.row.locals.biasPrime = sum
           /\ walk.row.locals.biasPrime > 0
           /\ walk.row.locals.biasPrime < Million

C35_Witness ==
    /\ walk.pc = "unit" /\ walk.row.called
    /\ walk.row.dropColumn = 0
    /\ walk.row.peg.leftBias = 400000
    /\ walk.row.locals.biasPrime = 340000

\* ------------------------------------------------------------------------
\* C36.  Drop-column monotonicity: when two engine objects built from the
\* same combined seed have each made their first call of run, with drop
\* columns d1 <= d2 in 0..12, then after every row the pos of the call
\* with d2 is no greater than the pos of the call with d1, and so is its
\* binIndex.
\* ------------------------------------------------------------------------
PosAfter(path, r) == CountRight(SubSeq(path, 1, r), 1)

C36_DropColumnMonotonic ==
    \A e1, e2 \in EngineIds :
       (/\ engines[e1].made /\ engines[e2].made
        /\ engines[e1].seed = engines[e2].seed
        /\ engines[e1].runs = 1 /\ engines[e2].runs = 1
        /\ engines[e1].dropColumn <= engines[e2].dropColumn)
       => LET r1 == engines[e1].last.result
              r2 == engines[e2].last.result
          IN  /\ \A r \in 1..ROWS : PosAfter(r2.path, r) <= PosAfter(r1.path, r)
              /\ r2.binIndex <= r1.binIndex

C36_Witness ==
    \E e1, e2 \in EngineIds :
       /\ engines[e1].made /\ engines[e2].made
       /\ engines[e1].seed = engines[e2].seed
       /\ engines[e1].runs = 1 /\ engines[e2].runs = 1
       /\ engines[e1].dropColumn < engines[e2].dropColumn
       /\ engines[e2].last.result.binIndex < engines[e1].last.result.binIndex
       /\ \E r \in 1..ROWS :
             PosAfter(engines[e2].last.result.path, r)
                = PosAfter(engines[e1].last.result.path, r)

\* ------------------------------------------------------------------------
\* C37.  Seed joining is injective on pairs: two different (serverSeed,
\* nonce) pairs of arbitrary strings, ':' allowed in them, never give the
\* same string serverSeed ':' nonce to hash.
\* ------------------------------------------------------------------------
C37_JoinInjective ==
    walk.pc = "seeds"
    => \A c1, c2 \in walk.made :
          <<c1.serverSeed, c1.nonce>> # <<c2.serverSeed, c2.nonce>>
          => c1.preimage # c2.preimage

\* C37 as amended: two different pairs give different strings to hash
\* when neither serverSeed contains ':', or neither nonce does; the other
\* component may contain ':'.
NoColon(str) == \A i \in 1..Len(str) : str[i] # ":"

C37_JoinInjectiveWithoutColon ==
    walk.pc = "seeds"
    => \A c1, c2 \in walk.made :
          (/\ <<c1.serverSeed, c1.nonce>> # <<c2.serverSeed, c2.nonce>>
           /\ \/ NoColon(c1.serverSeed) /\ NoColon(c2.serverSeed)
              \/ NoColon(c1.nonce) /\ NoColon(c2.nonce))
          => c1.preimage # c2.preimage

\* the pairs ('a', ':a') and ('', 'a:'): no ':' in the serverSeeds, one in
\* each nonce
C37_Witness ==
    /\ walk.pc = "seeds"
    /\ \E c1, c2 \in walk.made :
          /\ c1.serverSeed = <<"a">> /\ c1.nonce = <<":", "a">>
          /\ c2.serverSeed = <<>> /\ c2.nonce = <<"a", ":">>
          /\ c1.preimage = <<"a", ":", ":", "a">>
          /\ c2.preimage = <<":", "a", ":">>

\* ------------------------------------------------------------------------
\* C38.  Animation completion: every run of the animation that starts
\* calls onAnimationComplete exactly once.  No run has called it twice,
\* and a run whose effect is cleaned up has called it, or has the timer
\* pending that will.
\* ------------------------------------------------------------------------
C38_NeverTwice ==
    ui.pc = "game" => ui.board.calls <= 1

C38_RunCompletes ==
    (ui.pc = "game" /\ ui'.pc = "game" /\ ui.anim /\ ~ui'.anim)
    => (ui'.board.calls = 1 \/ ui'.board.landing)

C38_AnimationCompletesOnce == []C38_NeverTwice /\ [][C38_RunCompletes]_vars

\* ------------------------------------------------------------------------
\* C39.  The Verifier page never stays busy: loading returns to false
\* after every Load Round and Verify.  Only the continuation of a request
\* or the timer of a load can set loading back, the buttons being disabled
\* while it is true: so whenever loading is true, a request is in flight
\* or a timer is pending whose handleVerify will send one.
\* ------------------------------------------------------------------------
C39_BusyOnlyWhilePending ==
    (ui.pc = "verifier" /\ ui.loading)
    => \/ ui.loads # {}
       \/ ui.verifies # {}
       \/ \E ld \in ui.timers :
             /\ ld.form.serverSeed # ""
             /\ ld.form.clientSeed # ""
             /\ ld.form.nonce # ""

====
